---- MODULE Spec2Model ----
(***************************************************************************)
(* Router-mode pod network configurator of kubevirt                        *)
(* (pkg/network/infraconfigurators/router.go and its helper file) as a     *)
(* state machine: one RouterPodNetworkConfigurator instance driving a      *)
(* NetworkHandler whose calls may each return an error.                    *)
(***************************************************************************)
EXTENDS Integers, Sequences, FiniteSets, TLC

(***************************************************************************)
(* Bounds of the exploration.                                              *)
(***************************************************************************)
\* Discover/Prepare invocations made on the instance in one run.
MaxCalls == 3
\* Handler calls that return an error in one run.
MaxFaults == 1

(***************************************************************************)
(* Program constants.                                                      *)
(***************************************************************************)
localIPv4Addr == "169.254.75.1"
localIPv6Addr == "fc00:eeee:eeee:eeee:eeee:eeee:eeee:eeee"
gatewayMacAddress == "ee:ee:ee:ee:ee:ee"
\* net.IPv4len and net.IPv6len, the address lengths in bytes.
IPv4len == 4
IPv6len == 16
DefaultIPv4Dst == "0.0.0.0/0"
DefaultIPv6Dst == "::/0"
RESERVED_PORTS_ANNOTATION == "kubevirt.io/reserved-ports"
default_reserved_ports ==
    << [Name |-> "vnc", Port |-> 5900, Protocol |-> "TCP"],
       [Name |-> "vnc-ws", Port |-> 5901, Protocol |-> "TCP"] >>

Families == {"v4", "v6"}

(***************************************************************************)
(* Inputs: the pod interface, the VMIs and the pod network namespaces the  *)
(* configurator is run on.                                                 *)
(***************************************************************************)
PodIfaceName == "eth0"
PodMac == "0a:58:0a:00:00:05"
SpecMac == "de:ad:00:00:be:af"
RandomMac == "random"
PodIP == [v4 |-> "10.0.0.5", v6 |-> "fd10::5"]
PodPrefixLen == [v4 |-> 24, v6 |-> 64]
Gateway == [v4 |-> "10.0.0.1", v6 |-> "fe80::1"]

\* Values of the reserved-ports annotation: a JSON port list, a text that is
\* not JSON, and a JSON list whose second element has a field of the wrong type.
JsonPortList ==
    "[{\"name\":\"ssh\",\"port\":22,\"protocol\":\"TCP\"},{\"name\":\"dns\",\"port\":53,\"protocol\":\"UDP\"}]"
JsonGarbage == "5900,5901"
JsonTypeError ==
    "[{\"name\":\"ssh\",\"port\":22,\"protocol\":\"TCP\"},{\"name\":\"web\",\"port\":\"http\"}]"

NoAnnotations == [k \in {} |-> ""]
Annotated(data) == [k \in {RESERVED_PORTS_ANNOTATION} |-> data]

\* A VMI with its interface spec: the annotations and the declared MAC
\* ("" when none is declared, "not-a-mac" when it does not parse).
VMIs ==
    { [annotations |-> NoAnnotations,            mac |-> ""],
      [annotations |-> Annotated(JsonPortList),  mac |-> SpecMac],
      [annotations |-> Annotated(JsonGarbage),   mac |-> ""],
      [annotations |-> Annotated(JsonTypeError), mac |-> SpecMac],
      [annotations |-> NoAnnotations,            mac |-> "not-a-mac"] }

RouteDefault == "default"
RouteSubnet == "subnet"

\* The pod network namespaces: which families have an address on the pod
\* link, and the routes of the pod link per family.
HostConfigs ==
    { [addrs |-> {},           routes |-> [v4 |-> <<>>, v6 |-> <<>>]],
      [addrs |-> {"v4"},       routes |-> [v4 |-> <<RouteDefault, RouteSubnet>>, v6 |-> <<>>]],
      [addrs |-> {"v6"},       routes |-> [v4 |-> <<>>, v6 |-> <<RouteDefault>>]],
      [addrs |-> {"v4", "v6"}, routes |-> [v4 |-> <<RouteDefault>>, v6 |-> <<RouteDefault, RouteSubnet>>]],
      [addrs |-> {"v4"},       routes |-> [v4 |-> <<>>, v6 |-> <<>>]],
      [addrs |-> {"v4", "v6"}, routes |-> [v4 |-> <<RouteDefault>>, v6 |-> <<>>]] }

(***************************************************************************)
(* Handler calls.  A call is recorded with its operation, the address      *)
(* family, device, address, port, protocol and flags it names, the        *)
(* gateway, master or hardware address it goes by (via), and whether it    *)
(* returned without error.                                                 *)
(***************************************************************************)
Call(op, fam, dev, ip, ok) ==
    [op |-> op, fam |-> fam, dev |-> dev, ip |-> ip, port |-> 0,
     proto |-> "", flags |-> "", via |-> "", ok |-> ok]

\* A step of a function body: the call and whether its error makes the
\* function return (fatal) or is discarded.
Step(call, fatal) == [call |-> call, fatal |-> fatal]

\* The first step of a plan whose call fails fatally, 0 when there is none.
FailIdx(plan) ==
    LET F == {i \in 1..Len(plan) : plan[i].fatal /\ ~plan[i].call.ok}
    IN  IF F = {} THEN 0 ELSE CHOOSE i \in F : \A j \in F : i <= j

\* The calls a function body issues: every step up to and including the
\* first fatal failure.
Executed(plan) ==
    LET n == IF FailIdx(plan) = 0 THEN Len(plan) ELSE FailIdx(plan)
    IN  [i \in 1..n |-> plan[i].call]

Failed(plan) == FailIdx(plan) # 0

Errors(calls) == Cardinality({i \in 1..Len(calls) : ~calls[i].ok})

(***************************************************************************)
(* The pod network namespace behind the handler.                           *)
(***************************************************************************)
\* Operations that add an object or write a setting.
InstallOps ==
    {"EnableIPv6Flags", "CreateTapDevice", "LinkAdd", "LinkSetMaster", "AddrAdd",
     "ConfigureIpForwarding", "NftablesAppendRule", "IptablesAppendRule",
     "RouteAdd", "NeighAdd", "EnableIpv4ArpProxyOnIface",
     "EnableIpv6NdpProxyForAll", "EnableIpv6NdpProxyOnIface"}

\* Operations that change the namespace (the others only read it).
MutatingOps == InstallOps \cup {"LinkSetDown", "LinkSetUp", "AddrDel", "SetRandomMac"}

\* Operations that read the namespace or parse a text.
ReadingOps ==
    {"LinkByName", "ReadIPv4AndIPv6AddrFromLink", "RouteList", "GetDefaultGateway",
     "ParseAddr", "NftablesLoad", "HasNatIptables"}

DnatOps == {"NftablesAppendRule", "IptablesAppendRule"}

\* Operations on a link handle: with a nil link there is nothing to change.
LinkOps == {"LinkSetDown", "LinkSetUp", "AddrDel", "SetRandomMac"}

\* A call that changed the namespace: it returned without error, and it
\* writes, on a device when it is an operation on a link.
Mutating(c) == c.ok /\ c.op \in MutatingOps /\ (c.op \in LinkOps => c.dev # "")

\* The namespace after a call.
ApplyCall(h, c) ==
    IF ~Mutating(c) THEN h
    ELSE IF c.op \in LinkOps /\ c.dev = PodIfaceName
    THEN IF c.op = "LinkSetDown" THEN [h EXCEPT !.up = FALSE]
         ELSE IF c.op = "LinkSetUp" THEN [h EXCEPT !.up = TRUE]
         ELSE IF c.op = "AddrDel" THEN [h EXCEPT !.addrs = @ \ {c.fam}]
         ELSE [h EXCEPT !.mac = RandomMac]
    ELSE [h EXCEPT !.installed = @ \cup {c}]

RECURSIVE ApplyCalls(_, _)
ApplyCalls(h, calls) ==
    IF calls = <<>> THEN h
    ELSE ApplyCalls(ApplyCall(h, Head(calls)), Tail(calls))

NilLink == [nil |-> TRUE, name |-> "", mac |-> ""]
NilAddr == [ip |-> "", plen |-> 0]

\* What LinkByName returns for the pod interface: a snapshot of the link.
HostLink(h, name) == [nil |-> FALSE, name |-> name, mac |-> h.mac]

\* What ReadIPv4AndIPv6AddrFromLink returns for one family: the address of
\* the pod link, or nil.
HostAddr(h, fam) ==
    IF fam \in h.addrs THEN [ip |-> PodIP[fam], plen |-> PodPrefixLen[fam]] ELSE NilAddr

(***************************************************************************)
(* Helpers of the link package.                                            *)
(***************************************************************************)
GenerateTapDeviceName(podIfaceName) ==
    IF podIfaceName = "eth0" THEN "tap0" ELSE "tap" \o podIfaceName

GenerateInPodBridgeInterfaceName(podIfaceName) == "k6t-" \o podIfaceName

\* The declared MAC of the interface spec: nil when none is declared, an
\* error when it does not parse.
RetrieveMacAddressFromVMISpecIface(vmiSpecIface) ==
    IF vmiSpecIface.mac = "" THEN [mac |-> "", err |-> FALSE]
    ELSE IF vmiSpecIface.mac = "not-a-mac" THEN [mac |-> "", err |-> TRUE]
    ELSE [mac |-> vmiSpecIface.mac, err |-> FALSE]

\* The routes handed to the DHCP server: the pod routes without the default.
FilterPodNetworkRoutes(routes) == SelectSeq(routes, LAMBDA r : r # RouteDefault)

(***************************************************************************)
(* Reserved ports.                                                         *)
(***************************************************************************)
\* json.Unmarshal of the annotation into a port slice: a text that is not
\* JSON leaves the slice as it was; a list with an element of the wrong type
\* is decoded as far as it goes, and both report an error.
jsonUnmarshal(data, into) ==
    IF data = JsonPortList
    THEN [ports |-> << [Name |-> "ssh", Port |-> 22, Protocol |-> "TCP"],
                       [Name |-> "dns", Port |-> 53, Protocol |-> "UDP"] >>,
          err |-> FALSE]
    ELSE IF data = JsonTypeError
    THEN [ports |-> << [Name |-> "ssh", Port |-> 22, Protocol |-> "TCP"],
                       [Name |-> "web", Port |-> 0, Protocol |-> ""] >>,
          err |-> TRUE]
    ELSE [ports |-> into, err |-> TRUE]

reservedPortsInPod(vmi) ==
    IF RESERVED_PORTS_ANNOTATION \notin DOMAIN vmi.annotations
    THEN default_reserved_ports
    ELSE jsonUnmarshal(vmi.annotations[RESERVED_PORTS_ANNOTATION], <<>>).ports

(***************************************************************************)
(* The configurator.                                                       *)
(***************************************************************************)
NewRouterPodNetworkConfigurator(vmi, vmiSpecIface) ==
    [vmi                |-> vmi,
     vmiSpecIface       |-> vmiSpecIface,
     ipv4Enabled        |-> FALSE,
     ipv6Enabled        |-> FALSE,
     vmMac              |-> "",
     podNicLink         |-> NilLink,
     tapDeviceName      |-> "",
     tapNicLink         |-> NilLink,
     bridgeDeviceName   |-> "",
     bridgeLink         |-> NilLink,
     podIfaceIPv4Routes |-> <<>>,
     podIPv4Addr        |-> NilAddr,
     podIfaceIPv6Routes |-> <<>>,
     podIPv6Addr        |-> NilAddr,
     defaultIPv4Gateway |-> "",
     defaultIPv6Gateway |-> ""]

\* The outcome of a function body: the configurator, the handler calls
\* issued, and whether it returns an error.
Outcome(cfg, calls, err) == [b |-> cfg, calls |-> calls, err |-> err]

\* The routes read are appended to those the configurator already holds.
learnFamilyRoutes_append(cfg, h, fam, okRoutes, okGw) ==
    LET list   == Call("RouteList", fam, cfg.podNicLink.name, "", okRoutes)
        routes == h.routes[fam]
        cfg1   == IF fam = "v4" THEN [cfg EXCEPT !.podIfaceIPv4Routes = @ \o routes]
                                ELSE [cfg EXCEPT !.podIfaceIPv6Routes = @ \o routes]
        gw     == Call("GetDefaultGateway", fam, "", "", okGw)
        cfg2   == IF fam = "v4" THEN [cfg1 EXCEPT !.defaultIPv4Gateway = Gateway[fam]]
                                ELSE [cfg1 EXCEPT !.defaultIPv6Gateway = Gateway[fam]]
    IN  IF ~okRoutes THEN Outcome(cfg, <<list>>, TRUE)
        ELSE IF Len(routes) = 0 THEN Outcome(cfg, <<list>>, TRUE)
        ELSE IF ~okGw THEN Outcome(cfg1, <<list, gw>>, TRUE)
        ELSE Outcome(cfg2, <<list, gw>>, FALSE)

\* One family's block of learnInterfaceRoutes.
learnFamilyRoutes(cfg, h, fam, okRoutes, okGw) ==
    LET list   == Call("RouteList", fam, cfg.podNicLink.name, "", okRoutes)
        routes == h.routes[fam]
        cfg1   == IF fam = "v4" THEN [cfg EXCEPT !.podIfaceIPv4Routes = routes]
                                ELSE [cfg EXCEPT !.podIfaceIPv6Routes = routes]
        gw     == Call("GetDefaultGateway", fam, "", "", okGw)
        cfg2   == IF fam = "v4" THEN [cfg1 EXCEPT !.defaultIPv4Gateway = Gateway[fam]]
                                ELSE [cfg1 EXCEPT !.defaultIPv6Gateway = Gateway[fam]]
    IN  IF ~okRoutes THEN Outcome(cfg, <<list>>, TRUE)
        ELSE IF Len(routes) = 0 THEN Outcome(cfg, <<list>>, TRUE)
        ELSE IF ~okGw THEN Outcome(cfg1, <<list, gw>>, TRUE)
        ELSE Outcome(cfg2, <<list, gw>>, FALSE)

learnInterfaceRoutes(cfg, h, r) ==
    LET s4 == IF cfg.ipv4Enabled
              THEN learnFamilyRoutes(cfg, h, "v4", r["routes4"], r["gw4"])
              ELSE Outcome(cfg, <<>>, FALSE)
        s6 == IF s4.b.ipv6Enabled
              THEN learnFamilyRoutes(s4.b, h, "v6", r["routes6"], r["gw6"])
              ELSE Outcome(s4.b, <<>>, FALSE)
    IN  IF s4.err THEN s4 ELSE Outcome(s6.b, s4.calls \o s6.calls, s6.err)

\* Mutant of ResolveVmMac: the declared MAC is ignored.
ResolveVmMac_ignoreSpec(macAddr, link) == link.mac

\* The VM MAC: the declared one when there is one, else the hardware address
\* of the link snapshot.
ResolveVmMac(macAddr, link) == IF macAddr # "" THEN macAddr ELSE link.mac

\* Mutant of enableIPv6Flags: the guard on ipv6Enabled is dropped.
enableIPv6Flags_unguarded(cfg, ok) == <<Call("EnableIPv6Flags", "v6", "", "", ok)>>

\* The sysctl write of Discover: only with an IPv6 address on the pod link.
enableIPv6Flags(cfg, ok) ==
    IF cfg.ipv6Enabled THEN <<Call("EnableIPv6Flags", "v6", "", "", ok)>> ELSE <<>>

DiscoverSlots == {"link", "read", "flags", "routes4", "gw4", "routes6", "gw6"}

DiscoverPodNetworkInterface(cfg, h, podIfaceName, r) ==
    LET c1   == Call("LinkByName", "", podIfaceName, "", r["link"])
        cfg1 == [cfg EXCEPT !.podNicLink = HostLink(h, podIfaceName)]
        c2   == Call("ReadIPv4AndIPv6AddrFromLink", "", podIfaceName, "", r["read"])
        ipv4 == HostAddr(h, "v4")
        ipv6 == HostAddr(h, "v6")
        cfg2 == [cfg1 EXCEPT
                   !.ipv4Enabled = IF ipv4 # NilAddr THEN TRUE ELSE @,
                   !.podIPv4Addr = IF ipv4 # NilAddr THEN ipv4 ELSE @,
                   !.ipv6Enabled = IF ipv6 # NilAddr THEN TRUE ELSE @,
                   !.podIPv6Addr = IF ipv6 # NilAddr THEN ipv6 ELSE @]
        c3   == enableIPv6Flags(cfg2, r["flags"])
        s    == learnInterfaceRoutes(cfg2, h, r)
        cfg3 == [s.b EXCEPT
                   !.tapDeviceName = GenerateTapDeviceName(podIfaceName),
                   !.bridgeDeviceName = GenerateInPodBridgeInterfaceName(podIfaceName)]
        mac  == RetrieveMacAddressFromVMISpecIface(cfg.vmiSpecIface)
        cfg4 == [cfg3 EXCEPT !.vmMac = ResolveVmMac(mac.mac, cfg3.podNicLink)]
    IN  IF ~r["link"] THEN Outcome(cfg, <<c1>>, TRUE)
        ELSE IF ~r["read"] THEN Outcome(cfg1, <<c1, c2>>, TRUE)
        ELSE IF Errors(c3) > 0 THEN Outcome(cfg2, <<c1, c2>> \o c3, TRUE)
        ELSE IF s.err THEN Outcome(s.b, <<c1, c2>> \o c3 \o s.calls, TRUE)
        ELSE IF mac.err THEN Outcome(cfg3, <<c1, c2>> \o c3 \o s.calls, TRUE)
        ELSE Outcome(cfg4, <<c1, c2>> \o c3 \o s.calls, FALSE)

(***************************************************************************)
(* The steps of PreparePodNetworkInterface, each as the plan of its        *)
(* handler calls in source order.  r gives every call's result.            *)
(***************************************************************************)
PodNicSlots == {"down", "del4", "del6", "mac", "up"}

configurePodNic(cfg, r) ==
    LET name == cfg.podNicLink.name
    IN  <<Step(Call("LinkSetDown", "", name, "", r["down"]), TRUE)>>
        \o (IF cfg.ipv4Enabled
            THEN <<Step(Call("AddrDel", "v4", name, cfg.podIPv4Addr.ip, r["del4"]), FALSE)>>
            ELSE <<>>)
        \o (IF cfg.ipv6Enabled
            THEN <<Step(Call("AddrDel", "v6", name, cfg.podIPv6Addr.ip, r["del6"]), FALSE)>>
            ELSE <<>>)
        \o <<Step(Call("SetRandomMac", "", name, "", r["mac"]), TRUE),
             Step(Call("LinkSetUp", "", name, "", r["up"]), TRUE)>>

TapSlots == {"create", "byname", "up"}

createTapDevice(cfg, r) ==
    <<Step(Call("CreateTapDevice", "", cfg.tapDeviceName, "", r["create"]), TRUE),
      Step(Call("LinkByName", "", cfg.tapDeviceName, "", r["byname"]), TRUE),
      Step(Call("LinkSetUp", "", cfg.tapDeviceName, "", r["up"]), TRUE)>>

BridgeSlots == {"add", "master", "up", "parse4", "addr4", "parse6", "addr6", "byname"}

createBridge(cfg, r) ==
    LET bridge == cfg.bridgeDeviceName
    IN  <<Step(Call("LinkAdd", "", bridge, "", r["add"]), TRUE),
          Step([Call("LinkSetMaster", "", cfg.tapNicLink.name, "", r["master"])
                  EXCEPT !.via = bridge], TRUE),
          Step(Call("LinkSetUp", "", bridge, "", r["up"]), TRUE)>>
        \o (IF cfg.ipv4Enabled
            THEN <<Step(Call("ParseAddr", "v4", "", localIPv4Addr, r["parse4"]), FALSE),
                   Step(Call("AddrAdd", "v4", bridge,
                             IF r["parse4"] THEN localIPv4Addr ELSE "", r["addr4"]), TRUE)>>
            ELSE <<>>)
        \o (IF cfg.ipv6Enabled
            THEN <<Step(Call("ParseAddr", "v6", "", localIPv6Addr, r["parse6"]), FALSE),
                   Step(Call("AddrAdd", "v6", bridge,
                             IF r["parse6"] THEN localIPv6Addr ELSE "", r["addr6"]), TRUE)>>
            ELSE <<>>)
        \o <<Step(Call("LinkByName", "", bridge, "", r["byname"]), TRUE)>>

NatSlots == {"fwd", "nft", "route", "neigh", "hostroute"}

\* The handler call appending one DNAT rule for a reserved port.  The
\* nftables rule matches the pod interface; the iptables rule names none.
NftablesAppendRule(proto, iifname, port, localAddr, ok) ==
    [Call("NftablesAppendRule", proto, iifname, localAddr, ok) EXCEPT
        !.port = port.Port,
        !.proto = IF port.Protocol = "UDP" THEN "udp" ELSE "tcp",
        !.flags = "nat prerouting dnat"]

IptablesAppendRule(proto, port, localAddr, ok) ==
    [Call("IptablesAppendRule", proto, "", localAddr, ok) EXCEPT
        !.port = port.Port,
        !.proto = IF port.Protocol = "UDP" THEN "udp" ELSE "tcp",
        !.flags = "nat PREROUTING DNAT"]

\* With no NAT backend the function returns before the routes.
createNATRulesForReservedPorts_noBackendReturns(cfg, proto, ports, localAddr, podIP, defaultDst, defaultGateway, gatewayMacAddr, r, ipt, rr) ==
    LET name == cfg.podNicLink.name
    IN  <<Step(Call("ConfigureIpForwarding", proto, "", "", r["fwd"]), TRUE),
          Step(Call("NftablesLoad", proto, "", "", r["nft"]), FALSE)>>
        \o (IF r["nft"]
            THEN [i \in 1..Len(ports) |->
                    Step(NftablesAppendRule(proto, name, ports[i], localAddr, rr[i]), TRUE)]
            ELSE <<Step([Call("HasNatIptables", proto, "", "", TRUE)
                           EXCEPT !.flags = IF ipt THEN "true" ELSE "false"], FALSE)>>
                 \o (IF ipt
                     THEN [i \in 1..Len(ports) |->
                             Step(IptablesAppendRule(proto, ports[i], localAddr, rr[i]), TRUE)]
                     ELSE <<>>))
        \o (IF ~r["nft"] /\ ~ipt THEN <<>>
            ELSE <<Step([Call("RouteAdd", proto, name, defaultDst, r["route"])
                           EXCEPT !.flags = "FLAG_ONLINK", !.via = defaultGateway], TRUE),
                   Step([Call("NeighAdd", proto, name, defaultGateway, r["neigh"])
                           EXCEPT !.flags = "NUD_PERMANENT", !.via = gatewayMacAddr], TRUE),
                   Step([Call("RouteAdd", proto, cfg.bridgeLink.name, podIP, r["hostroute"])
                           EXCEPT !.flags = "SCOPE_HOST"], TRUE)>>)

\* r gives the result of the fixed calls, ipt what HasNatIptables answers,
\* rr the result of the rule appended for each port.
createNATRulesForReservedPorts(cfg, proto, ports, localAddr, podIP, defaultDst, defaultGateway, gatewayMacAddr, r, ipt, rr) ==
    LET name == cfg.podNicLink.name
    IN  <<Step(Call("ConfigureIpForwarding", proto, "", "", r["fwd"]), TRUE),
          Step(Call("NftablesLoad", proto, "", "", r["nft"]), FALSE)>>
        \o (IF r["nft"]
            THEN [i \in 1..Len(ports) |->
                    Step(NftablesAppendRule(proto, name, ports[i], localAddr, rr[i]), TRUE)]
            ELSE <<Step([Call("HasNatIptables", proto, "", "", TRUE)
                           EXCEPT !.flags = IF ipt THEN "true" ELSE "false"], FALSE)>>
                 \o (IF ipt
                     THEN [i \in 1..Len(ports) |->
                             Step(IptablesAppendRule(proto, ports[i], localAddr, rr[i]), TRUE)]
                     ELSE <<>>))
        \o <<Step([Call("RouteAdd", proto, name, defaultDst, r["route"])
                     EXCEPT !.flags = "FLAG_ONLINK", !.via = defaultGateway], TRUE),
             Step([Call("NeighAdd", proto, name, defaultGateway, r["neigh"])
                     EXCEPT !.flags = "NUD_PERMANENT", !.via = gatewayMacAddr], TRUE),
             Step([Call("RouteAdd", proto, cfg.bridgeLink.name, podIP, r["hostroute"])
                     EXCEPT !.flags = "SCOPE_HOST"], TRUE)>>

NeighSlots == {"arp", "neigh4", "ndpall", "ndpif", "neigh6"}

\* The errors of the IPv4 part are logged and the IPv6 part still runs.
configureNeighbourReply_continueAfterIPv4(cfg, r) ==
    LET name == cfg.podNicLink.name
    IN  (IF cfg.ipv4Enabled
         THEN <<Step(Call("EnableIpv4ArpProxyOnIface", "v4", name, "", r["arp"]), FALSE),
                Step([Call("NeighAdd", "v4", name, cfg.podIPv4Addr.ip, r["neigh4"])
                        EXCEPT !.flags = "NTF_PROXY"], FALSE)>>
         ELSE <<>>)
        \o (IF cfg.ipv6Enabled
            THEN <<Step(Call("EnableIpv6NdpProxyForAll", "v6", "", "", r["ndpall"]), TRUE),
                   Step(Call("EnableIpv6NdpProxyOnIface", "v6", name, "", r["ndpif"]), TRUE),
                   Step([Call("NeighAdd", "v6", name, cfg.podIPv6Addr.ip, r["neigh6"])
                           EXCEPT !.flags = "NTF_PROXY"], TRUE)>>
            ELSE <<>>)

configureNeighbourReply(cfg, r) ==
    LET name == cfg.podNicLink.name
    IN  (IF cfg.ipv4Enabled
         THEN <<Step(Call("EnableIpv4ArpProxyOnIface", "v4", name, "", r["arp"]), TRUE),
                Step([Call("NeighAdd", "v4", name, cfg.podIPv4Addr.ip, r["neigh4"])
                        EXCEPT !.flags = "NTF_PROXY"], TRUE)>>
         ELSE <<>>)
        \o (IF cfg.ipv6Enabled
            THEN <<Step(Call("EnableIpv6NdpProxyForAll", "v6", "", "", r["ndpall"]), TRUE),
                   Step(Call("EnableIpv6NdpProxyOnIface", "v6", name, "", r["ndpif"]), TRUE),
                   Step([Call("NeighAdd", "v6", name, cfg.podIPv6Addr.ip, r["neigh6"])
                           EXCEPT !.flags = "NTF_PROXY"], TRUE)>>
            ELSE <<>>)

\* Mutant of PreparePhases: the NAT steps run before the bridge is created.
PreparePhases_natBeforeBridge ==
    <<"configurePodNic", "createTapDevice", "createNATRulesIPv4",
      "createNATRulesIPv6", "createBridge", "configureNeighbourReply">>

\* The order in which PreparePodNetworkInterface runs its steps.
PreparePhases ==
    <<"configurePodNic", "createTapDevice", "createBridge",
      "createNATRulesIPv4", "createNATRulesIPv6", "configureNeighbourReply">>

PhaseIdx(p) == CHOOSE i \in 1..Len(PreparePhases) : PreparePhases[i] = p

\* Where Prepare goes after a step that returned no error: the next step, or
\* back to the caller after the last.
NextPhase(p) ==
    IF PhaseIdx(p) = Len(PreparePhases) THEN "idle" ELSE PreparePhases[PhaseIdx(p) + 1]

(***************************************************************************)
(* The facts handed on: the domain interface and the DHCP configuration.   *)
(* A nil dereference is a panic.                                           *)
(***************************************************************************)
NoInterface == [MAC |-> ""]

GenerateNonRecoverableDomainIfaceSpec(cfg) ==
    IF cfg.vmMac = "" THEN [panic |-> TRUE, val |-> NoInterface]
    ELSE [panic |-> FALSE, val |-> [MAC |-> cfg.vmMac]]

NilRoutes == [nil |-> TRUE, list |-> <<>>]

\* The zero DHCPConfig.
ZeroDHCPConfig ==
    [MAC |-> "", IPAMDisabled |-> FALSE, IP |-> NilAddr, IPv6 |-> NilAddr,
     Gateway |-> "", IPv6Gateway |-> "", Routes |-> NilRoutes, IPv6Routes |-> NilRoutes]

\* netlink.ParseAddr of "<ip>/<bits>".
ParseAddr(ip, bits) == [ip |-> ip, plen |-> bits]

GenerateNonRecoverableDHCPConfig(cfg) ==
    LET c0 == [ZeroDHCPConfig EXCEPT !.MAC = cfg.vmMac]
        c4 == IF cfg.ipv4Enabled
              THEN [c0 EXCEPT
                      !.IP = ParseAddr(cfg.podIPv4Addr.ip, 8 * IPv4len),
                      !.Routes = IF Len(cfg.podIfaceIPv4Routes) > 1
                                 THEN [nil |-> FALSE,
                                       list |-> FilterPodNetworkRoutes(cfg.podIfaceIPv4Routes)]
                                 ELSE @,
                      !.Gateway = localIPv4Addr]
              ELSE c0
        c6 == IF cfg.ipv6Enabled
              THEN [c4 EXCEPT
                      !.IPv6 = ParseAddr(cfg.podIPv6Addr.ip, 8 * IPv6len),
                      !.IPv6Routes = IF Len(cfg.podIfaceIPv6Routes) > 1
                                     THEN [nil |-> FALSE,
                                           list |-> FilterPodNetworkRoutes(cfg.podIfaceIPv6Routes)]
                                     ELSE @,
                      !.IPv6Gateway = cfg.defaultIPv6Gateway]
              ELSE c4
    IN  IF ~cfg.ipv4Enabled /\ ~cfg.ipv6Enabled
        THEN [panic |-> FALSE, val |-> [ZeroDHCPConfig EXCEPT !.IPAMDisabled = TRUE]]
        ELSE IF cfg.vmMac = "" THEN [panic |-> TRUE, val |-> ZeroDHCPConfig]
        ELSE [panic |-> FALSE, val |-> c6]

(***************************************************************************)
(* State.                                                                  *)
(***************************************************************************)
VARIABLES
    b,       \* the RouterPodNetworkConfigurator
    host,    \* the pod network namespace behind the handler
    pc,      \* "idle", the Prepare step about to run, or "panicked"
    trace,   \* the handler calls of the current (or last) Discover or Prepare
    last,    \* the current (or last) Discover or Prepare and how it ended
    ret,     \* what the last Generate call returned
    calls,   \* Discover/Prepare invocations so far
    faults,  \* handler calls that returned an error so far
    hist,    \* history: a Discover returned nil, the MAC the pod link had then,
             \* and the Prepare runs that changed the namespace
    prev     \* the configurator and result kept from before: of the process before a restart, or of the Discover before a repeated one

\* The router advertiser (ndp.go) with its connection (conn.go).
VARIABLES
    servePc,      \* Serve: "off", "read", "send" or "returned"
    serveErr,     \* the error Serve returned ("" for none)
    periodicPc,   \* PeriodicallySendRAs: "off", "wait" or "send"
    tickPending,  \* ticker.C holds a tick
    ndpLog,       \* the reads and writes on the connection and the ticks taken
    raOptions     \* rad.raOptions

\* The directory list watcher (inotifyinformer) with the directory it
\* watches, its fsnotify watcher, its goroutine, its callers and its consumer.
VARIABLES
    dir,         \* the files in d.fileDir
    lockHolder,  \* d.lock: the caller holding it, "" when free
    started,     \* d.backgroundWatcherStarted
    stopChan,    \* d.stopChan: "nil", "open" or "closed"
    eventChan,   \* d.eventChan: the events buffered in it
    watcher,     \* d.watcher: "nil", "new", "watching" or "closed"
    fsEvents,    \* d.watcher.Events: filesystem events not yet taken
    fsError,     \* d.watcher.Errors holds an error
    wg,          \* d.wg: goroutines not yet done
    gPc,         \* the goroutine: "none", "select", "put", "putErr" or "exited"
    hand,        \* the event the goroutine is about to put
    tpc,         \* where each caller is in List or Stop
    tlist,       \* the directory listing each caller's List has read
    tret,        \* what the last List or Stop call to return returned
    dlwHist      \* history of the watch, for the properties

\* The merge of the guest agent's interface statuses with the domain's.
VARIABLES
    domInterfaces,      \* the argument domInterfaces
    interfaceStatuses,  \* the argument interfaceStatuses, changed in place
    merged,             \* the slice MergeAgentStatusesWithDomainData returned
    mergePc,            \* "off", "call" or "done"
    reported            \* interfaceStatuses as it was passed, for the properties

routerVars == <<b, host, pc, trace, last, ret, calls, faults, hist, prev>>

mergeVars == <<domInterfaces, interfaceStatuses, merged, mergePc, reported>>

\* The guest agent's replies and their conversion.
VARIABLES
    agentResult,   \* the argument agentResult of convertInterfaceStatusesFromAgentJSON
    ipAddresses,   \* the argument ipAddresses of extractIPs
    extracted,     \* what extractIPs returned
    agentReply,    \* the argument agentReply of a parse function, as tokens
    parseRet,      \* what the parse function returned, or that it panicked
    agentPc        \* "off", "extract", "convert", "merge", "parse" or "done"

agentVars == <<agentResult, ipAddresses, extracted, agentReply, parseRet, agentPc>>

\* resolv.conf and what the parsers of package dns return for it.
VARIABLES
    content,        \* the argument content, as its lines
    nameservers,    \* what ParseNameservers returned
    searchDomains,  \* what ParseSearchDomains returned, or the argument searchDomains
    subdomain,      \* the argument subdomain of DomainNameWithSubdomain
    domainName,     \* what DomainNameWithSubdomain returned
    dnsPc           \* which of the functions have returned

dnsVars == <<content, nameservers, searchDomains, subdomain, domainName, dnsPc>>

\* The network setup of a VMI and the calls it makes.
VARIABLES
    vmiNetworks,    \* vmi.Spec.Networks
    vmiInterfaces,  \* vmi.Spec.Domain.Devices.Interfaces
    plugCalls,      \* the calls of PlugPhase1, in the order they were made
    setupPc         \* "off", "setup" or "done"

setupVars == <<vmiNetworks, vmiInterfaces, plugCalls, setupPc>>

\* The state of the functions that keep none between calls.
pureVars == <<agentVars, dnsVars, setupVars>>

dlwVars ==
    <<dir, lockHolder, started, stopChan, eventChan, watcher, fsEvents, fsError,
      wg, gPc, hand, tpc, tlist, tret, dlwHist>>

ndpVars == <<servePc, serveErr, periodicPc, tickPending, ndpLog, raOptions>>

vars == <<routerVars, ndpVars, dlwVars, mergeVars, pureVars>>

\* The callers of List and Stop.
Callers == {"c1", "c2"}

\* An event of the result channel.
WatchEvent(type, name) == [Type |-> type, Name |-> name]

NoEvent == WatchEvent("", "")

\* What a call returned.
Returned(op, err, items, closedStop) ==
    [op |-> op, err |-> err, items |-> items, closedStop |-> closedStop]

NoHistory ==
    [list    |-> [valid |-> FALSE, items |-> {}],  \* the last List result, while the watch it started runs
     seen    |-> <<>>,     \* events the running watcher was given
     put     |-> <<>>,     \* events the running goroutine put on the result channel
     closes  |-> 0,        \* close(d.stopChan) on the current stop channel
     stopped |-> FALSE,    \* a Stop that found the watch running has returned, no start since
     late    |-> <<>>,     \* events a consumer received while stopped
     fsOps   |-> 0,        \* filesystem operations so far
     calls   |-> 0,        \* List and Stop calls so far
     fresh   |-> {}]       \* callers whose List went through startBackground, no Stop since

\* No reply of the guest agent is being converted.
AgentOff ==
    /\ agentResult = <<>>
    /\ ipAddresses = <<>>
    /\ extracted = [interfaceIP |-> "", interfaceIPs |-> <<>>]
    /\ agentReply = <<>>
    /\ parseRet = [fn |-> "", panic |-> FALSE, err |-> FALSE, response |-> <<>>]
    /\ agentPc = "off"

NoNameservers == [called |-> FALSE, ipv4 |-> <<>>, ipv6 |-> <<>>, err |-> FALSE]

NoSearchDomains == [called |-> FALSE, domains |-> <<>>, err |-> FALSE]

\* No function of package dns is called.
DnsOff ==
    /\ content = <<>>
    /\ nameservers = NoNameservers
    /\ searchDomains = NoSearchDomains
    /\ subdomain = <<>>
    /\ domainName = <<>>
    /\ dnsPc = "off"

\* None of the stateless functions is called.
SetupOff ==
    /\ vmiNetworks = <<>>
    /\ vmiInterfaces = <<>>
    /\ plugCalls = <<>>
    /\ setupPc = "off"

PureOff == AgentOff /\ DnsOff /\ SetupOff

\* No merge is called.
MergeOff ==
    /\ domInterfaces = <<>>
    /\ interfaceStatuses = <<>>
    /\ merged = <<>>
    /\ mergePc = "off"
    /\ reported = <<>>

\* No list watcher is in use: the state NewFileListWatchFromClient leaves.
DlwOff ==
    /\ dir = {}
    /\ lockHolder = ""
    /\ started = FALSE
    /\ stopChan = "nil"
    /\ eventChan = <<>>
    /\ watcher = "nil"
    /\ fsEvents = <<>>
    /\ fsError = FALSE
    /\ wg = 0
    /\ gPc = "none"
    /\ hand = NoEvent
    /\ tpc = [t \in Callers |-> "idle"]
    /\ tlist = [t \in Callers |-> {}]
    /\ tret = Returned("none", FALSE, {}, FALSE)
    /\ dlwHist = NoHistory

\* No router advertiser is running.
NdpOff ==
    /\ servePc = "off"
    /\ serveErr = ""
    /\ periodicPc = "off"
    /\ tickPending = FALSE
    /\ ndpLog = <<>>
    /\ raOptions = <<>>

\* No process ran before this one.
NoPrev ==
    [restarted |-> FALSE,
     b |-> NewRouterPodNetworkConfigurator([annotations |-> NoAnnotations], [mac |-> ""]),
     res |-> "none"]

NoRet == [op |-> "none", panic |-> FALSE, iface |-> NoInterface, dhcp |-> ZeroDHCPConfig]

Init ==
    /\ \E v \in VMIs :
         b = NewRouterPodNetworkConfigurator([annotations |-> v.annotations], [mac |-> v.mac])
    /\ \E c \in HostConfigs :
         host = [mac |-> PodMac, up |-> TRUE, addrs |-> c.addrs, routes |-> c.routes,
                 installed |-> {}]
    /\ pc = "idle"
    /\ trace = <<>>
    /\ last = [op |-> "none", res |-> "none"]
    /\ ret = NoRet
    /\ calls = 0
    /\ faults = 0
    /\ hist = [discovered |-> FALSE, linkMac |-> "", mutatingPrepares |-> 0]
    /\ prev = NoPrev
    /\ NdpOff
    /\ DlwOff
    /\ MergeOff
    /\ PureOff

\* The results offered for the calls named by slots: every assignment of
\* success or error that the fault budget left allows.
Results(slots) ==
    {[s \in slots |-> s \notin F] :
        F \in {G \in SUBSET slots : Cardinality(G) <= MaxFaults - faults}}

\* Some call of a sequence changed the namespace.
Mutates(cs) == \E i \in 1..Len(cs) : Mutating(cs[i])

(***************************************************************************)
(* DiscoverPodNetworkInterface("eth0"), run to its return.                 *)
(***************************************************************************)
Discover ==
    /\ pc = "idle"
    /\ calls < MaxCalls
    /\ \E r \in Results(DiscoverSlots) :
         LET o == DiscoverPodNetworkInterface(b, host, PodIfaceName, r)
         IN  /\ faults + Errors(o.calls) <= MaxFaults
             /\ b' = o.b
             /\ host' = ApplyCalls(host, o.calls)
             /\ trace' = o.calls
             /\ last' = [op |-> "Discover", res |-> IF o.err THEN "err" ELSE "ok"]
             /\ faults' = faults + Errors(o.calls)
             /\ hist' = [hist EXCEPT !.discovered = @ \/ ~o.err,
                                     !.linkMac = IF o.err THEN @ ELSE o.b.podNicLink.mac]
    /\ calls' = calls + 1
    /\ ret' = NoRet
    /\ pc' = "idle"

(***************************************************************************)
(* PreparePodNetworkInterface, one action per step of its body.  A step    *)
(* that returns an error ends Prepare; the others hand over to the next.   *)
(***************************************************************************)
\* The effect of one step: cfg is the configurator after it, plan its calls.
RunPhase(phase, cfg, plan, before) ==
    LET done == Executed(plan)
        next == NextPhase(phase)
    IN  /\ faults + Errors(done) <= MaxFaults
        /\ b' = cfg
        /\ host' = ApplyCalls(host, done)
        /\ trace' = before \o done
        /\ faults' = faults + Errors(done)
        /\ pc' = IF Failed(plan) THEN "idle" ELSE next
        /\ last' = [op |-> "Prepare",
                    res |-> IF Failed(plan) THEN "err"
                            ELSE IF next = "idle" THEN "ok" ELSE "running"]

\* Mutant of AttrsPanics: reading the name of a nil link yields "".
AttrsPanics_never(link) == FALSE

\* b.podNicLink.Attrs() on a link that was never resolved is a nil dereference.
AttrsPanics(link) == link.nil

\* Entry of Prepare and its first step.  With no link resolved the step
\* passes the nil link to LinkSetDown and panics on reading its name.
PrepareConfigurePodNic ==
    /\ pc = "idle"
    /\ calls < MaxCalls
    /\ PreparePhases[1] = "configurePodNic"
    /\ calls' = calls + 1
    /\ ret' = NoRet
    /\ IF AttrsPanics(b.podNicLink)
       THEN /\ \E ok \in BOOLEAN :
                 /\ faults + (IF ok THEN 0 ELSE 1) <= MaxFaults
                 /\ trace' = <<Call("LinkSetDown", "", "", "", ok)>>
                 /\ faults' = faults + (IF ok THEN 0 ELSE 1)
            /\ pc' = "panicked"
            /\ last' = [op |-> "Prepare", res |-> "panic"]
            /\ UNCHANGED <<b, host, hist>>
       ELSE \E r \in Results(PodNicSlots) :
              /\ RunPhase("configurePodNic", b, configurePodNic(b, r), <<>>)
              /\ hist' = [hist EXCEPT !.mutatingPrepares =
                            IF Mutates(Executed(configurePodNic(b, r))) THEN @ + 1 ELSE @]

PrepareCreateTapDevice ==
    /\ pc = "createTapDevice"
    /\ \E r \in Results(TapSlots) :
         LET plan == createTapDevice(b, r)
             cfg  == IF r["create"] /\ r["byname"]
                     THEN [b EXCEPT !.tapNicLink =
                             [nil |-> FALSE, name |-> b.tapDeviceName, mac |-> ""]]
                     ELSE b
         IN  RunPhase("createTapDevice", cfg, plan, trace)
    /\ UNCHANGED <<ret, calls, hist>>

PrepareCreateBridge ==
    /\ pc = "createBridge"
    /\ \E r \in Results(BridgeSlots) :
         LET plan == createBridge(b, r)
             cfg  == IF ~Failed(plan)
                     THEN [b EXCEPT !.bridgeLink =
                             [nil |-> FALSE, name |-> b.bridgeDeviceName, mac |-> ""]]
                     ELSE b
         IN  RunPhase("createBridge", cfg, plan, trace)
    /\ UNCHANGED <<ret, calls, hist>>

\* The rule results offered to a NAT step: one per reserved port.
RuleResults == Results(1..Len(reservedPortsInPod(b.vmi)))

PrepareCreateNATRulesIPv4 ==
    /\ pc = "createNATRulesIPv4"
    /\ IF b.ipv4Enabled
       THEN \E r \in Results(NatSlots), ipt \in BOOLEAN, rr \in RuleResults :
              RunPhase("createNATRulesIPv4", b,
                       createNATRulesForReservedPorts(b, "v4", reservedPortsInPod(b.vmi),
                           localIPv4Addr, b.podIPv4Addr.ip, DefaultIPv4Dst,
                           b.defaultIPv4Gateway, gatewayMacAddress, r, ipt, rr),
                       trace)
       ELSE RunPhase("createNATRulesIPv4", b, <<>>, trace)
    /\ UNCHANGED <<ret, calls, hist>>

PrepareCreateNATRulesIPv6 ==
    /\ pc = "createNATRulesIPv6"
    /\ IF b.ipv6Enabled
       THEN \E r \in Results(NatSlots), ipt \in BOOLEAN, rr \in RuleResults :
              RunPhase("createNATRulesIPv6", b,
                       createNATRulesForReservedPorts(b, "v6", reservedPortsInPod(b.vmi),
                           localIPv6Addr, b.podIPv6Addr.ip, DefaultIPv6Dst,
                           b.defaultIPv6Gateway, gatewayMacAddress, r, ipt, rr),
                       trace)
       ELSE RunPhase("createNATRulesIPv6", b, <<>>, trace)
    /\ UNCHANGED <<ret, calls, hist>>

PrepareConfigureNeighbourReply ==
    /\ pc = "configureNeighbourReply"
    /\ \E r \in Results(NeighSlots) :
         RunPhase("configureNeighbourReply", b, configureNeighbourReply(b, r), trace)
    /\ UNCHANGED <<ret, calls, hist>>

PreparePodNetworkInterface ==
    \/ PrepareConfigurePodNic
    \/ PrepareCreateTapDevice
    \/ PrepareCreateBridge
    \/ PrepareCreateNATRulesIPv4
    \/ PrepareCreateNATRulesIPv6
    \/ PrepareConfigureNeighbourReply

(***************************************************************************)
(* The two Generate calls: they read the configurator and return.          *)
(***************************************************************************)
GenerateDomainIfaceSpec ==
    /\ pc = "idle"
    /\ LET o == GenerateNonRecoverableDomainIfaceSpec(b)
       IN  /\ ret' = [NoRet EXCEPT !.op = "DomainIfaceSpec", !.panic = o.panic, !.iface = o.val]
           /\ pc' = IF o.panic THEN "panicked" ELSE pc
    /\ UNCHANGED <<b, host, trace, last, calls, faults, hist>>

GenerateDHCPConfig_filterInPlace ==
    /\ pc = "idle"
    /\ LET o == GenerateNonRecoverableDHCPConfig(b)
       IN  /\ ret' = [NoRet EXCEPT !.op = "DHCPConfig", !.panic = o.panic, !.dhcp = o.val]
           /\ pc' = IF o.panic THEN "panicked" ELSE pc
    /\ b' = [b EXCEPT !.podIfaceIPv4Routes =
                 IF b.ipv4Enabled /\ Len(@) > 1 THEN FilterPodNetworkRoutes(@) ELSE @]
    /\ UNCHANGED <<host, trace, last, calls, faults, hist>>

GenerateDHCPConfig ==
    /\ pc = "idle"
    /\ LET o == GenerateNonRecoverableDHCPConfig(b)
       IN  /\ ret' = [NoRet EXCEPT !.op = "DHCPConfig", !.panic = o.panic, !.dhcp = o.val]
           /\ pc' = IF o.panic THEN "panicked" ELSE pc
    /\ UNCHANGED <<b, host, trace, last, calls, faults, hist>>

Next ==
    /\ \/ Discover
       \/ PreparePodNetworkInterface
       \/ GenerateDomainIfaceSpec
       \/ GenerateDHCPConfig
    /\ UNCHANGED <<prev, ndpVars, dlwVars, mergeVars, pureVars>>

Spec == Init /\ [][Next]_vars

(***************************************************************************)
(* Properties of Discover and Prepare.                                     *)
(***************************************************************************)
Idx == 1..Len(trace)

\* The step of Prepare a handler call belongs to (1 pod NIC, 2 tap,
\* 3 bridge, 4 NAT IPv4, 5 NAT IPv6, 6 neighbour proxy); 0 for a link call
\* whose device name does not tell tap and bridge apart.
PhaseOfCall(c) ==
    IF c.op \in {"LinkSetDown", "AddrDel", "SetRandomMac"} THEN 1
    ELSE IF c.op = "CreateTapDevice" THEN 2
    ELSE IF c.op \in {"LinkAdd", "LinkSetMaster", "ParseAddr", "AddrAdd"} THEN 3
    ELSE IF c.op \in {"LinkSetUp", "LinkByName"}
    THEN IF c.dev = PodIfaceName THEN 1
         ELSE IF b.tapDeviceName = b.bridgeDeviceName THEN 0
         ELSE IF c.dev = b.tapDeviceName THEN 2
         ELSE IF c.dev = b.bridgeDeviceName THEN 3
         ELSE 0
    ELSE IF c.op \in {"EnableIpv4ArpProxyOnIface", "EnableIpv6NdpProxyForAll",
                      "EnableIpv6NdpProxyOnIface"}
            \/ (c.op = "NeighAdd" /\ c.flags = "NTF_PROXY") THEN 6
    ELSE IF c.fam = "v4" THEN 4
    ELSE 5

\* Where in the trace a call of an operation returned without error.
OkAt(op) == {i \in Idx : trace[i].op = op /\ trace[i].ok}

\* C1: in every execution of Prepare the handler calls come in the order pod
\* NIC, tap, bridge, NAT/routes for IPv4, NAT/routes for IPv6, neighbour
\* proxy; no DNAT rule, route or neighbour entry is issued before the
\* bridge's LinkAdd, LinkSetMaster and LinkByName have succeeded (in that
\* order), and the bridge is created only after the tap was created and set
\* up.
C1_PhaseOrder ==
    last.op = "Prepare" =>
      /\ LET phase == SelectSeq([i \in Idx |-> PhaseOfCall(trace[i])], LAMBDA p : p # 0)
         IN  \A k \in 1..(Len(phase) - 1) : phase[k] <= phase[k + 1]
      /\ \A j \in Idx :
           trace[j].op \in DnatOps \cup {"RouteAdd", "NeighAdd"} =>
             \E i1 \in OkAt("LinkAdd"), i2 \in OkAt("LinkSetMaster"), i3 \in OkAt("LinkByName") :
               i1 < i2 /\ i2 < i3 /\ i3 < j
      /\ \A j \in Idx :
           trace[j].op = "LinkAdd" =>
             \E i1 \in OkAt("CreateTapDevice"), i2 \in OkAt("LinkSetUp") :
               i1 < i2 /\ i2 < j

\* A dual-stack Prepare that returned nil after issuing DNAT rules.
C1_Witness ==
    /\ last = [op |-> "Prepare", res |-> "ok"]
    /\ b.ipv4Enabled /\ b.ipv6Enabled
    /\ \E i, j \in Idx : /\ trace[i].op \in DnatOps /\ trace[i].fam = "v4"
                         /\ trace[j].op \in DnatOps /\ trace[j].fam = "v6"

\* The instance was used as intended: one Discover that returned nil, then
\* one Prepare.
DiscoverThenPrepare == hist.discovered /\ calls = 2 /\ last.op = "Prepare"

\* C2: when a handler call of Prepare returns an error, that call is the last
\* one Prepare issues and Prepare returns an error.
C2_AnyFailureAborts ==
    DiscoverThenPrepare =>
      \A i \in Idx : ~trace[i].ok => (i = Len(trace) /\ last.res = "err")

\* C3 as claimed: a Discover that returns an error has issued no call of a
\* state-changing operation (sysctl write, link, address, route, neighbour).
C3_NoMutationOnError ==
    last = [op |-> "Discover", res |-> "err"] =>
      \A i \in Idx : trace[i].op \notin MutatingOps

\* C3 as amended: a Discover that returns an error has issued no call of a
\* state-changing operation other than the EnableIPv6Flags sysctl write,
\* which it issues at most once, only when an IPv6 address was found on the
\* pod link, and only after the link lookup and the address read succeeded.
C3_OnlySysctlOnError ==
    last = [op |-> "Discover", res |-> "err"] =>
      \A i \in Idx :
        trace[i].op \in MutatingOps =>
          /\ trace[i].op = "EnableIPv6Flags"
          /\ b.ipv6Enabled
          /\ i = 3
          /\ trace[1].op = "LinkByName" /\ trace[1].ok
          /\ trace[2].op = "ReadIPv4AndIPv6AddrFromLink" /\ trace[2].ok

\* A Discover that wrote the sysctl flags and then returned an error.
C3_Witness ==
    /\ last = [op |-> "Discover", res |-> "err"]
    /\ \E i \in Idx : trace[i].op = "EnableIPv6Flags" /\ trace[i].ok

\* C4 as claimed: Prepare changes the namespace only on an instance whose
\* Discover returned nil before, and the mutation sequence of Prepare is
\* applied at most once per instance.
C4_SingleUse ==
    /\ (last.op = "Prepare" /\ Mutates(trace)) => hist.discovered
    /\ hist.mutatingPrepares <= 1

\* C4 as amended: Prepare changes the namespace only on an instance whose pod
\* link a Discover has resolved; on an instance without a resolved link
\* Prepare panics without having changed anything.
C4_MutatesOnlyWithLink ==
    /\ (last.op = "Prepare" /\ Mutates(trace)) => ~b.podNicLink.nil
    /\ (last.op = "Prepare" /\ b.podNicLink.nil) =>
         (last.res = "panic" /\ pc = "panicked" /\ ~Mutates(trace))

\* A Prepare that changed the namespace although no Discover ever returned nil.
C4_Witness ==
    /\ last.op = "Prepare"
    /\ Mutates(trace)
    /\ ~hist.discovered
    /\ ~b.podNicLink.nil

(***************************************************************************)
(* Properties of the per-family calls and of what Generate hands on.       *)
(***************************************************************************)
Enabled4or6(F) == IF F = "v4" THEN b.ipv4Enabled ELSE b.ipv6Enabled

LearnedAddr(F) == IF F = "v4" THEN b.podIPv4Addr ELSE b.podIPv6Addr

LocalAddr(F) == IF F = "v4" THEN localIPv4Addr ELSE localIPv6Addr

\* Some call of the trace has the given operation, family, device and flags.
Issued(op, F, dev, flags) ==
    \E i \in Idx : /\ trace[i].op = op /\ trace[i].fam = F
                   /\ trace[i].dev = dev /\ trace[i].flags = flags

\* The DNAT rule calls of a family, in the order issued.
DnatRules(F) == SelectSeq(trace, LAMBDA c : c.op \in DnatOps /\ c.fam = F)

\* The rule a reserved port asks for: port, protocol and the local address.
RuleOf(c) == [Port |-> c.port, Protocol |-> c.proto, To |-> c.ip]

ExpectedRules(F, ports) ==
    [i \in 1..Len(ports) |->
        [Port |-> ports[i].Port,
         Protocol |-> IF ports[i].Protocol = "UDP" THEN "udp" ELSE "tcp",
         To |-> LocalAddr(F)]]

\* C5: a Prepare that returned nil has issued, for a family with an address
\* learned by Discover, the address removal on the pod link, the fixed local
\* address on the bridge, IP forwarding and one DNAT rule per reserved port,
\* both routes and the gateway neighbour, the proxy flags and the proxy
\* neighbour; for a family without a learned address it has issued no call of
\* that family; and with no family enabled the DHCP config is exactly the
\* IPAMDisabled sentinel.
C5_PerFamilyCalls ==
    /\ \A F \in Families : Enabled4or6(F) <=> (LearnedAddr(F) # NilAddr)
    /\ last = [op |-> "Prepare", res |-> "ok"] =>
         \A F \in Families :
           IF Enabled4or6(F)
           THEN /\ Issued("AddrDel", F, b.podNicLink.name, "")
                /\ \E i \in Idx : /\ trace[i].op = "AddrAdd" /\ trace[i].fam = F
                                  /\ trace[i].dev = b.bridgeDeviceName
                                  /\ trace[i].ip = LocalAddr(F)
                /\ Issued("ConfigureIpForwarding", F, "", "")
                /\ Len(DnatRules(F)) = Len(reservedPortsInPod(b.vmi))
                /\ Issued("RouteAdd", F, b.podNicLink.name, "FLAG_ONLINK")
                /\ Issued("NeighAdd", F, b.podNicLink.name, "NUD_PERMANENT")
                /\ Issued("RouteAdd", F, b.bridgeDeviceName, "SCOPE_HOST")
                /\ Issued("NeighAdd", F, b.podNicLink.name, "NTF_PROXY")
                /\ IF F = "v4"
                   THEN Issued("EnableIpv4ArpProxyOnIface", F, b.podNicLink.name, "")
                   ELSE /\ Issued("EnableIpv6NdpProxyForAll", F, "", "")
                        /\ Issued("EnableIpv6NdpProxyOnIface", F, b.podNicLink.name, "")
           ELSE \A i \in Idx : trace[i].fam # F
    /\ (ret.op = "DHCPConfig" /\ ~b.ipv4Enabled /\ ~b.ipv6Enabled) =>
         /\ ~ret.panic
         /\ ret.dhcp = [ZeroDHCPConfig EXCEPT !.IPAMDisabled = TRUE]

\* The MAC Discover resolves: the declared one, else the one the pod link had.
ExpectedVmMac == IF b.vmiSpecIface.mac # "" THEN b.vmiSpecIface.mac ELSE hist.linkMac

\* C6: once a Discover has returned nil the resolved VM MAC is the declared
\* MAC when there is one and else the hardware address the pod link had at
\* that Discover, and GenerateNonRecoverableDomainIfaceSpec returns it,
\* before Prepare and after Prepare has randomized the pod link's MAC.
C6_VmMacStable ==
    hist.discovered =>
      /\ b.vmMac = ExpectedVmMac
      /\ ret.op = "DomainIfaceSpec" => (~ret.panic /\ ret.iface.MAC = ExpectedVmMac)

\* The domain interface generated after Prepare randomized the pod link's
\* MAC carries the MAC the link had at Discover.
C6_Witness ==
    /\ last = [op |-> "Prepare", res |-> "ok"]
    /\ \E i \in Idx : trace[i].op = "SetRandomMac" /\ trace[i].ok
    /\ b.vmiSpecIface.mac = ""
    /\ ret.op = "DomainIfaceSpec"
    /\ ret.iface.MAC = PodMac

\* C7: the DHCP config carries, for every enabled family, the learned pod
\* address with a full-length prefix as the assigned IP and the fixed local
\* address of the bridge as the gateway.
C7_FixedGateways ==
    (ret.op = "DHCPConfig" /\ ~ret.panic) =>
      /\ b.ipv4Enabled =>
           /\ ret.dhcp.IP = [ip |-> b.podIPv4Addr.ip, plen |-> 32]
           /\ ret.dhcp.Gateway = localIPv4Addr
      /\ b.ipv6Enabled =>
           /\ ret.dhcp.IPv6 = [ip |-> b.podIPv6Addr.ip, plen |-> 128]
           /\ ret.dhcp.IPv6Gateway = localIPv6Addr

\* The annotation is absent or holds a well-formed JSON port list.
AnnotationWellFormed ==
    \/ RESERVED_PORTS_ANNOTATION \notin DOMAIN b.vmi.annotations
    \/ ~jsonUnmarshal(b.vmi.annotations[RESERVED_PORTS_ANNOTATION], <<>>).err

\* The ports the DNAT rules are to cover: the two VNC defaults without the
\* annotation, the annotated ports with it.
ClaimedPorts ==
    IF RESERVED_PORTS_ANNOTATION \notin DOMAIN b.vmi.annotations
    THEN << [Name |-> "vnc", Port |-> 5900, Protocol |-> "TCP"],
            [Name |-> "vnc-ws", Port |-> 5901, Protocol |-> "TCP"] >>
    ELSE jsonUnmarshal(b.vmi.annotations[RESERVED_PORTS_ANNOTATION], <<>>).ports

\* C8: after Discover and a Prepare that returned nil, the DNAT rules
\* installed for each enabled family are exactly one rule per reserved port,
\* each redirecting to the fixed local address of the family: 5900/TCP and
\* 5901/TCP without the annotation, the annotated ports with it.
C8_RulesEqualReservedPorts ==
    (DiscoverThenPrepare /\ last.res = "ok" /\ AnnotationWellFormed) =>
      \A F \in Families :
        Enabled4or6(F) =>
          /\ \A i \in 1..Len(DnatRules(F)) : Mutating(DnatRules(F)[i])
          /\ [i \in 1..Len(DnatRules(F)) |-> RuleOf(DnatRules(F)[i])]
               = ExpectedRules(F, ClaimedPorts)

\* C9: reservedPortsInPod returns the default list when the annotation is
\* absent and when its value does not parse as a JSON port list; the list a
\* Prepare installs rules for is then never empty or partial.
C9_MalformedFallsBack ==
    (last.op = "Prepare" /\ ~AnnotationWellFormed) =>
      /\ reservedPortsInPod(b.vmi) = default_reserved_ports
      /\ \A F \in Families :
           (last.res = "ok" /\ Enabled4or6(F)) =>
             Len(DnatRules(F)) = Len(default_reserved_ports)

\* The NAT step of a family got past its rules: its gateway route was asked for.
PastRules(F) == \E i \in Idx : trace[i].op = "RouteAdd" /\ trace[i].fam = F

\* C10: per family the DNAT rules go through exactly one backend, nftables
\* when NftablesLoad succeeded and iptables otherwise, never through both,
\* and a failing nftables append ends Prepare with an error.
C10_ExactlyOneBackend ==
    last.op = "Prepare" =>
      \A F \in Families :
        LET rules == DnatRules(F)
            nft   == {i \in 1..Len(rules) : rules[i].op = "NftablesAppendRule"}
            ipt   == {i \in 1..Len(rules) : rules[i].op = "IptablesAppendRule"}
            n     == Len(reservedPortsInPod(b.vmi))
        IN  /\ nft = {} \/ ipt = {}
            /\ \A i \in Idx :
                 (trace[i].op = "NftablesLoad" /\ trace[i].fam = F) =>
                   /\ trace[i].ok => ipt = {}
                   /\ ~trace[i].ok => nft = {}
                   /\ (PastRules(F) /\ trace[i].ok) => Cardinality(nft) = n
                   /\ (PastRules(F) /\ ~trace[i].ok) => Cardinality(ipt) = n
            /\ \A i \in Idx :
                 (trace[i].op = "NftablesAppendRule" /\ trace[i].fam = F /\ ~trace[i].ok) =>
                   (i = Len(trace) /\ last.res = "err")

(***************************************************************************)
(* The NDP router advertiser: Serve answers Router Solicitations, and      *)
(* PeriodicallySendRAs advertises on every tick of its ticker.  The two    *)
(* loops run concurrently on one connection.                               *)
(***************************************************************************)
\* No configurator is in use.
RouterOff ==
    /\ b = NewRouterPodNetworkConfigurator([annotations |-> NoAnnotations], [mac |-> ""])
    /\ host = [mac |-> PodMac, up |-> TRUE, addrs |-> {},
               routes |-> [v4 |-> <<>>, v6 |-> <<>>], installed |-> {}]
    /\ pc = "idle"
    /\ trace = <<>>
    /\ last = [op |-> "none", res |-> "none"]
    /\ ret = NoRet
    /\ calls = 0
    /\ faults = 0
    /\ hist = [discovered |-> FALSE, linkMac |-> "", mutatingPrepares |-> 0]
    /\ prev = NoPrev

\* Reads Serve issues and ticks the ticker delivers in a run.
MaxReads == 3
MaxTicks == 2

IPv6linklocalallnodes == "ff02::1"

\* What l.conn.ReadFrom can yield: a Router Solicitation, a message of
\* another NDP type, bytes that are no NDP message, no bytes, a socket error.
Packets ==
    { [n |-> 8,  err |-> FALSE, body |-> "RouterSolicitation"],
      [n |-> 24, err |-> FALSE, body |-> "NeighborSolicitation"],
      [n |-> 3,  err |-> FALSE, body |-> "garbage"],
      [n |-> 0,  err |-> FALSE, body |-> ""],
      [n |-> 0,  err |-> TRUE,  body |-> ""] }

\* What marshalling and l.conn.WriteTo can yield.
WriteResults ==
    { [marshalErr |-> FALSE, n |-> 56, err |-> FALSE],
      [marshalErr |-> FALSE, n |-> 0,  err |-> FALSE],
      [marshalErr |-> FALSE, n |-> 0,  err |-> TRUE],
      [marshalErr |-> TRUE,  n |-> 0,  err |-> FALSE] }

\* ndp.ParseMessage: the message type, or an error.
ParseMessage(body) ==
    IF body \in {"RouterSolicitation", "NeighborSolicitation"}
    THEN [msg |-> body, err |-> ""]
    ELSE [msg |-> "", err |-> "parse"]

\* NDPConnection.ReadFrom on what the socket yields.
ReadFrom(pkt) ==
    IF pkt.err \/ pkt.n = 0
    THEN [msg |-> "", err |-> "failed to read NDP"]
    ELSE IF ParseMessage(pkt.body).err # ""
    THEN [msg |-> "", err |-> "failed to unmarshall NDP msg"]
    ELSE [msg |-> ParseMessage(pkt.body).msg, err |-> ""]

\* NDPConnection.WriteTo on what marshalling and the socket yield.
WriteTo(msg, dst, w) ==
    IF w.marshalErr THEN "failed to marshall the NDP msg"
    ELSE IF w.err \/ w.n = 0 THEN "failed to send the NDP msg"
    ELSE ""

\* 65535 * time.Second, in seconds.
routerAdvertisementMaxLifetime == 65535

\* The arguments ipv6CIDR and routerMACAddr of the constructor.
RouterCIDRs == {"fd10:0:2::2/120", "fd00::1/64", "fd10:0:2::2"}
RouterMAC == "02:00:00:00:00:01"

\* net.ParseCIDR: the address and the length of the mask.
ParseCIDR(cidr) ==
    CASE cidr = "fd10:0:2::2/120" -> [ip |-> "fd10:0:2::2", ones |-> 120, err |-> FALSE]
      [] cidr = "fd00::1/64"      -> [ip |-> "fd00::1", ones |-> 64, err |-> FALSE]
      [] OTHER                    -> [ip |-> "", ones |-> 0, err |-> TRUE]

prepareRAOptions_autonomous(prefix, prefixLength, routerMACAddr) ==
    << [option |-> "PrefixInformation", PrefixLength |-> prefixLength, OnLink |-> TRUE,
        AutonomousAddressConfiguration |-> TRUE, ValidLifetime |-> "Infinity",
        PreferredLifetime |-> "Infinity", Prefix |-> prefix],
       [option |-> "LinkLayerAddress", Addr |-> routerMACAddr, Direction |-> "Source"] >>

prepareRAOptions(prefix, prefixLength, routerMACAddr) ==
    << [option |-> "PrefixInformation", PrefixLength |-> prefixLength, OnLink |-> TRUE,
        AutonomousAddressConfiguration |-> FALSE, ValidLifetime |-> "Infinity",
        PreferredLifetime |-> "Infinity", Prefix |-> prefix],
       [option |-> "LinkLayerAddress", Addr |-> routerMACAddr, Direction |-> "Source"] >>

\* CreateRouterAdvertisementServer: the advertiser, or an error.
CreateRouterAdvertisementServer(connErr, ipv6CIDR, routerMACAddr) ==
    LET c == ParseCIDR(ipv6CIDR)
    IN  IF connErr THEN [rad |-> "nil", err |-> "failed to create NDP connection"]
        ELSE IF c.err THEN [rad |-> "nil", err |-> "could not compute prefix"]
        ELSE [rad |-> [raOptions |-> prepareRAOptions(c.ip, c.ones % 256, routerMACAddr)],
              err |-> ""]

\* The message SendRouterAdvertisement builds.
RouterAdvertisement(options) ==
    [ManagedConfiguration |-> TRUE, OtherConfiguration |-> TRUE,
     RouterLifetime |-> routerAdvertisementMaxLifetime, ReachableTime |-> "Infinity",
     Options |-> options]

\* RouterAdvertiser.SendRouterAdvertisement: the error it returns.
SendRouterAdvertisement(w) ==
    IF WriteTo("RouterAdvertisement", IPv6linklocalallnodes, w) # ""
    THEN "failed to send router advertisement"
    ELSE ""

\* An entry of the log: who did what, with which message, to which
\* destination, and whether it failed.
NdpEvent(who, ev, msg, dst, failed) ==
    [who |-> who, ev |-> ev, msg |-> msg, dst |-> dst, failed |-> failed]

\* The entry of a write of SendRouterAdvertisement, with the message.
NdpWrite(who, ra, dst, failed) ==
    [who |-> who, ev |-> "write", msg |-> "RouterAdvertisement", dst |-> dst,
     failed |-> failed, ra |-> ra]

NdpCount(who, ev) ==
    Cardinality({i \in 1..Len(ndpLog) : ndpLog[i].who = who /\ ndpLog[i].ev = ev})

\* Mutant of IsRouterSolicitation: every message is answered.
IsRouterSolicitation_any(msg) == TRUE

\* The type switch of Serve.
IsRouterSolicitation(msg) == msg = "RouterSolicitation"

\* Mutant of AfterRead: a failed read is retried.
AfterRead_retry(r) ==
    IF r.err # "" THEN "read"
    ELSE IF IsRouterSolicitation(r.msg) THEN "send" ELSE "read"

\* Where Serve goes after a read.
AfterRead(r) ==
    IF r.err # "" THEN "returned"
    ELSE IF IsRouterSolicitation(r.msg) THEN "send" ELSE "read"

\* Mutant of PeriodicAfterSend: a failed send ends the loop.
PeriodicAfterSend_fatal(err) == IF err # "" THEN "returned" ELSE "wait"

\* Where PeriodicallySendRAs goes after a send: the error is only logged.
PeriodicAfterSend(err) == "wait"

\* The advertiser after a construction that succeeded, with one of cidrs.
InitNdpWith(cidrs) ==
    /\ RouterOff
    /\ DlwOff
    /\ MergeOff
    /\ PureOff
    /\ servePc = "read"
    /\ serveErr = ""
    /\ periodicPc = "wait"
    /\ tickPending = FALSE
    /\ ndpLog = <<>>
    /\ \E connErr \in BOOLEAN, cidr \in cidrs :
         LET r == CreateRouterAdvertisementServer(connErr, cidr, RouterMAC)
         IN  r.err = "" /\ raOptions = r.rad.raOptions

InitNdp == InitNdpWith({"fd10:0:2::2/120"})

\* Serve: msg, err := rad.ndpConn.ReadFrom() and the switch on the type.
ServeRead ==
    /\ servePc = "read"
    /\ NdpCount("Serve", "read") < MaxReads
    /\ \E pkt \in Packets :
         LET r == ReadFrom(pkt)
         IN  /\ ndpLog' = Append(ndpLog, NdpEvent("Serve", "read", r.msg, "", r.err # ""))
             /\ servePc' = AfterRead(r)
             /\ serveErr' = r.err
    /\ UNCHANGED <<periodicPc, tickPending, raOptions>>

\* Serve: err = rad.SendRouterAdvertisement() for a Router Solicitation.
ServeSend ==
    /\ servePc = "send"
    /\ \E w \in WriteResults :
         LET err == SendRouterAdvertisement(w)
         IN  /\ ndpLog' = Append(ndpLog, NdpWrite("Serve", RouterAdvertisement(raOptions),
                                                  IPv6linklocalallnodes, err # ""))
             /\ servePc' = IF err # "" THEN "returned" ELSE "read"
             /\ serveErr' = err
    /\ UNCHANGED <<periodicPc, tickPending, raOptions>>

\* The ticker fires; a tick not yet taken is not doubled.
Tick ==
    /\ periodicPc # "off"
    /\ ~tickPending
    /\ NdpCount("Periodic", "tick") < MaxTicks
    /\ tickPending' = TRUE
    /\ UNCHANGED <<servePc, serveErr, periodicPc, ndpLog, raOptions>>

\* PeriodicallySendRAs: case <-ticker.C.
PeriodicTick ==
    /\ periodicPc = "wait"
    /\ tickPending
    /\ tickPending' = FALSE
    /\ periodicPc' = "send"
    /\ ndpLog' = Append(ndpLog, NdpEvent("Periodic", "tick", "", "", FALSE))
    /\ UNCHANGED <<servePc, serveErr, raOptions>>

\* PeriodicallySendRAs: the send of a tick.
PeriodicSend ==
    /\ periodicPc = "send"
    /\ \E w \in WriteResults :
         LET err == SendRouterAdvertisement(w)
         IN  /\ ndpLog' = Append(ndpLog, NdpWrite("Periodic", RouterAdvertisement(raOptions),
                                                  IPv6linklocalallnodes, err # ""))
             /\ periodicPc' = PeriodicAfterSend(err)
    /\ UNCHANGED <<servePc, serveErr, tickPending, raOptions>>

NextNdp ==
    /\ \/ ServeRead
       \/ ServeSend
       \/ Tick
       \/ PeriodicTick
       \/ PeriodicSend
    /\ UNCHANGED <<routerVars, dlwVars, mergeVars, pureVars>>

SpecNdp == InitNdp /\ [][NextNdp]_vars

\* The loops are scheduled: a goroutine that can step does step.
SpecNdpFair ==
    SpecNdp /\ WF_vars(PeriodicTick /\ UNCHANGED <<routerVars, dlwVars, mergeVars, pureVars>>)
            /\ WF_vars(PeriodicSend /\ UNCHANGED <<routerVars, dlwVars, mergeVars, pureVars>>)

(***************************************************************************)
(* Properties of the router advertiser.                                    *)
(***************************************************************************)
\* What Serve did, in order.
ServeLog == SelectSeq(ndpLog, LAMBDA e : e.who = "Serve")

\* What PeriodicallySendRAs did, in order.
PeriodicLog == SelectSeq(ndpLog, LAMBDA e : e.who = "Periodic")

IsRSRead(e) == e.ev = "read" /\ ~e.failed /\ e.msg = "RouterSolicitation"

IsRAWrite(e) ==
    e.ev = "write" /\ e.msg = "RouterAdvertisement" /\ e.dst = IPv6linklocalallnodes

\* C11: in Serve every Router Solicitation read is followed, before the next
\* read, by exactly one Router Advertisement written to the all-nodes
\* address, a message of another type is followed by no write, and while
\* Serve is at its read the advertisements it sent are as many as the
\* solicitations it read.
C11_OneRAPerRS ==
    LET s == ServeLog
    IN  /\ \A k \in 1..Len(s) :
             /\ IsRSRead(s[k]) =>
                  IF k = Len(s) THEN servePc = "send" ELSE IsRAWrite(s[k + 1])
             /\ s[k].ev = "write" => (IsRAWrite(s[k]) /\ k > 1 /\ IsRSRead(s[k - 1]))
        /\ servePc = "read" =>
             Cardinality({k \in 1..Len(s) : IsRAWrite(s[k]) /\ ~s[k].failed})
               = Cardinality({k \in 1..Len(s) : IsRSRead(s[k])})

\* Serve answered two solicitations, read a message of another type in
\* between, and is reading again.
C11_Witness ==
    /\ servePc = "read"
    /\ Len(ServeLog) = 5
    /\ IsRSRead(ServeLog[1]) /\ IsRAWrite(ServeLog[2])
    /\ ServeLog[3].msg = "NeighborSolicitation"
    /\ IsRSRead(ServeLog[4]) /\ IsRAWrite(ServeLog[5])
    /\ \E i \in 1..Len(ndpLog) : ndpLog[i].who = "Periodic" /\ ndpLog[i].ev = "write"

PeriodicInLoop ==
    /\ periodicPc \in {"wait", "send"}
    /\ NdpCount("Periodic", "write")
         = NdpCount("Periodic", "tick") - (IF periodicPc = "send" THEN 1 ELSE 0)

\* C13: PeriodicallySendRAs tries exactly one Router Advertisement per tick
\* it takes and never leaves its loop, whether the send failed or not; a
\* tick that is due is taken and its send is tried.
C13_OneRAPerTick == []PeriodicInLoop /\ (tickPending ~> periodicPc = "send")

\* A periodic send failed and the send of the following tick was tried.
C13_Witness ==
    /\ Len(PeriodicLog) = 4
    /\ PeriodicLog[2].ev = "write" /\ PeriodicLog[2].failed
    /\ PeriodicLog[3].ev = "tick"
    /\ PeriodicLog[4].ev = "write"

(***************************************************************************)
(* The directory list watcher.  A file name is the sequence of the parts   *)
(* between its underscores.                                                *)
(***************************************************************************)
\* List and Stop calls, and filesystem operations, in a run.
MaxWatchCalls == 3
MaxFsOps == 2

\* The capacity of d.eventChan (100 in the source), scaled down.
EventChanCap == 1

Files == { <<"default", "vm1">>, <<"junk">> }

\* splitFileNamespaceName: a name with other than two parts is an error.
splitFileNamespaceName(name) ==
    IF Len(name) # 2
    THEN [namespace |-> "", domain |-> "", err |-> TRUE]
    ELSE [namespace |-> name[1], domain |-> name[2], err |-> FALSE]

WellFormed(name) == ~splitFileNamespaceName(name).err

\* An event of d.watcher.Events.
FsEvent(name, op) == [Name |-> name, Op |-> op]

\* Mutant of EventTypeOf: a remove is given no type.
EventTypeOf_removeUntyped(op) == IF op = "Create" THEN "ADDED" ELSE ""

\* The switch on event.Op in the goroutine: the type of the event to put.
EventTypeOf(op) ==
    IF op = "Create" THEN "ADDED"
    ELSE IF op = "Remove" THEN "DELETED"
    ELSE ""

\* Mutant of ListOrder: the directory is read before the watch is started.
ListOrder_readFirst == <<"ReadDir", "startBackground">>

\* The steps of List.
ListOrder == <<"startBackground", "ReadDir">>

ListStepPc(k) ==
    IF k > Len(ListOrder) THEN "list_return"
    ELSE IF ListOrder[k] = "startBackground" THEN "sb_lock"
    ELSE "readdir"

\* Where List goes after a step that returned no error.
AfterListStep(step) ==
    ListStepPc((CHOOSE k \in 1..Len(ListOrder) : ListOrder[k] = step) + 1)

\* Mutant of StopReturnsEarly: Stop does not look at the started flag.
StopReturnsEarly_never(isStarted) == FALSE

\* The guard of Stop: nothing to do when the watch is not started.
StopReturnsEarly(isStarted) == isStarted = FALSE

InitDlw ==
    /\ RouterOff
    /\ NdpOff
    /\ DlwOff
    /\ MergeOff
    /\ PureOff

\* A caller calls List.
CallList(t) ==
    /\ tpc[t] = "idle"
    /\ dlwHist.calls < MaxWatchCalls
    /\ tpc' = [tpc EXCEPT ![t] = ListStepPc(1)]
    /\ tlist' = [tlist EXCEPT ![t] = {}]
    /\ dlwHist' = [dlwHist EXCEPT !.calls = @ + 1, !.fresh = @ \ {t}]
    /\ UNCHANGED <<dir, lockHolder, started, stopChan, eventChan, watcher, fsEvents,
                   fsError, wg, gPc, hand, tret>>

\* startBackground: lock, return when started, else make the two channels.
StartBackgroundLock(t) ==
    /\ tpc[t] = "sb_lock"
    /\ lockHolder = ""
    /\ IF started
       THEN /\ tpc' = [tpc EXCEPT ![t] = AfterListStep("startBackground")]
            /\ dlwHist' = [dlwHist EXCEPT !.fresh = @ \cup {t}]
            /\ UNCHANGED <<lockHolder, stopChan, eventChan>>
       ELSE /\ lockHolder' = t
            /\ stopChan' = "open"
            /\ eventChan' = <<>>
            /\ dlwHist' = [dlwHist EXCEPT !.closes = 0, !.stopped = FALSE]
            /\ tpc' = [tpc EXCEPT ![t] = "sb_newWatcher"]
    /\ UNCHANGED <<dir, started, watcher, fsEvents, fsError, wg, gPc, hand, tlist, tret>>

\* startBackground: d.watcher, err = fsnotify.NewWatcher().
NewWatcher(t) ==
    /\ tpc[t] = "sb_newWatcher"
    /\ \E ok \in BOOLEAN :
         IF ok
         THEN /\ watcher' = "new"
              /\ tpc' = [tpc EXCEPT ![t] = "sb_add"]
              /\ UNCHANGED <<lockHolder, tret>>
         ELSE /\ watcher' = "nil"
              /\ lockHolder' = ""
              /\ tpc' = [tpc EXCEPT ![t] = "idle"]
              /\ tret' = Returned("List", TRUE, {}, FALSE)
    /\ UNCHANGED <<dir, started, stopChan, eventChan, fsEvents, fsError, wg, gPc, hand,
                   tlist, dlwHist>>

\* startBackground: d.watcher.Add(d.fileDir), then the goroutine is started
\* and the flag set.
WatcherAdd(t) ==
    /\ tpc[t] = "sb_add"
    /\ lockHolder' = ""
    /\ \E ok \in BOOLEAN :
         IF ok
         THEN /\ watcher' = "watching"
              /\ wg' = wg + 1
              /\ gPc' = "select"
              /\ started' = TRUE
              /\ dlwHist' = [dlwHist EXCEPT !.seen = <<>>, !.put = <<>>, !.fresh = @ \cup {t}]
              /\ tpc' = [tpc EXCEPT ![t] = AfterListStep("startBackground")]
              /\ UNCHANGED tret
         ELSE /\ tpc' = [tpc EXCEPT ![t] = "idle"]
              /\ tret' = Returned("List", TRUE, {}, FALSE)
              /\ UNCHANGED <<watcher, wg, gPc, started, dlwHist>>
    /\ UNCHANGED <<dir, stopChan, eventChan, fsEvents, fsError, hand, tlist>>

\* On an error of ioutil.ReadDir List returns it and leaves the watch as it is.
ReadDir_noStop(t) ==
    /\ tpc[t] = "readdir"
    /\ \E ok \in BOOLEAN :
         IF ok
         THEN /\ tlist' = [tlist EXCEPT ![t] = {f \in dir : WellFormed(f)}]
              /\ tpc' = [tpc EXCEPT ![t] = AfterListStep("ReadDir")]
              /\ UNCHANGED tret
         ELSE /\ tpc' = [tpc EXCEPT ![t] = "idle"]
              /\ tret' = Returned("List", TRUE, {}, FALSE)
              /\ UNCHANGED tlist
    /\ UNCHANGED <<dir, lockHolder, started, stopChan, eventChan, watcher, fsEvents,
                   fsError, wg, gPc, hand, dlwHist>>

\* List: ioutil.ReadDir and the loop over the files; on an error d.Stop().
ReadDir(t) ==
    /\ tpc[t] = "readdir"
    /\ \E ok \in BOOLEAN :
         IF ok
         THEN /\ tlist' = [tlist EXCEPT ![t] = {f \in dir : WellFormed(f)}]
              /\ tpc' = [tpc EXCEPT ![t] = AfterListStep("ReadDir")]
         ELSE /\ tpc' = [tpc EXCEPT ![t] = "lstop_lock"]
              /\ UNCHANGED tlist
    /\ UNCHANGED <<dir, lockHolder, started, stopChan, eventChan, watcher, fsEvents,
                   fsError, wg, gPc, hand, tret, dlwHist>>

\* List returns its domain list.
ListReturn(t) ==
    /\ tpc[t] = "list_return"
    /\ tpc' = [tpc EXCEPT ![t] = "idle"]
    /\ tret' = Returned("List", FALSE, tlist[t], FALSE)
    /\ dlwHist' = [dlwHist EXCEPT !.list = [valid |-> t \in dlwHist.fresh /\ started
                                                       /\ stopChan = "open",
                                            items |-> tlist[t]]]
    /\ UNCHANGED <<dir, lockHolder, started, stopChan, eventChan, watcher, fsEvents,
                   fsError, wg, gPc, hand>>
    /\ tlist' = [tlist EXCEPT ![t] = {}]

\* A caller calls Stop.
CallStop(t) ==
    /\ tpc[t] = "idle"
    /\ dlwHist.calls < MaxWatchCalls
    /\ tpc' = [tpc EXCEPT ![t] = "stop_lock"]
    /\ dlwHist' = [dlwHist EXCEPT !.calls = @ + 1]
    /\ UNCHANGED <<dir, lockHolder, started, stopChan, eventChan, watcher, fsEvents,
                   fsError, wg, gPc, hand, tlist, tret>>

\* What the caller gets when Stop is over: Stop itself returns nothing, List
\* returns the error of ReadDir.
AfterStop(t, closedStop) ==
    IF tpc[t] \in {"lstop_lock", "lstop_wait"}
    THEN Returned("List", TRUE, {}, closedStop)
    ELSE Returned("Stop", FALSE, {}, closedStop)

\* Stop: lock, return when not started, else close(d.stopChan).
StopLock(t) ==
    /\ tpc[t] \in {"stop_lock", "lstop_lock"}
    /\ lockHolder = ""
    /\ IF StopReturnsEarly(started)
       THEN /\ tpc' = [tpc EXCEPT ![t] = "idle"]
            /\ tret' = AfterStop(t, FALSE)
            /\ UNCHANGED <<lockHolder, stopChan, dlwHist>>
       ELSE /\ lockHolder' = t
            /\ stopChan' = IF stopChan = "open" THEN "closed" ELSE "panic"
            /\ dlwHist' = [dlwHist EXCEPT !.closes = @ + 1, !.fresh = {},
                                          !.list = [valid |-> FALSE, items |-> {}]]
            /\ tpc' = [tpc EXCEPT ![t] = IF tpc[t] = "stop_lock" THEN "stop_wait"
                                                                 ELSE "lstop_wait"]
            /\ UNCHANGED tret
    /\ UNCHANGED <<dir, started, eventChan, watcher, fsEvents, fsError, wg, gPc, hand,
                   tlist>>

\* Stop: d.wg.Wait(), then the flag is cleared and the deferred Unlock runs.
StopWait(t) ==
    /\ tpc[t] \in {"stop_wait", "lstop_wait"}
    /\ wg = 0
    /\ stopChan # "panic"
    /\ started' = FALSE
    /\ lockHolder' = ""
    /\ tpc' = [tpc EXCEPT ![t] = "idle"]
    /\ tret' = AfterStop(t, TRUE)
    /\ dlwHist' = [dlwHist EXCEPT !.stopped = TRUE]
    /\ UNCHANGED <<dir, stopChan, eventChan, watcher, fsEvents, fsError, wg, gPc, hand,
                   tlist>>

\* The goroutine: case <-d.stopChan.
GoStop ==
    /\ gPc = "select"
    /\ stopChan = "closed"
    /\ watcher' = "closed"
    /\ fsEvents' = <<>>
    /\ fsError' = FALSE
    /\ gPc' = "exited"
    /\ wg' = wg - 1
    /\ UNCHANGED <<dir, lockHolder, started, stopChan, eventChan, hand, tpc, tlist, tret,
                   dlwHist>>

\* The goroutine: case event := <-d.watcher.Events, up to the send.
GoEvent ==
    /\ gPc = "select"
    /\ fsEvents # <<>>
    /\ LET event == Head(fsEvents)
           parts == splitFileNamespaceName(event.Name)
       IN  /\ fsEvents' = Tail(fsEvents)
           /\ IF parts.err
              THEN UNCHANGED <<gPc, hand>>
              ELSE /\ gPc' = "put"
                   /\ hand' = WatchEvent(EventTypeOf(event.Op), event.Name)
    /\ UNCHANGED <<dir, lockHolder, started, stopChan, eventChan, watcher, fsError, wg,
                   tpc, tlist, tret, dlwHist>>

\* The goroutine: case err := <-d.watcher.Errors, up to the send of the
\* Error event.
GoError ==
    /\ gPc = "select"
    /\ fsError
    /\ fsError' = FALSE
    /\ gPc' = "putErr"
    /\ hand' = WatchEvent("ERROR", <<>>)
    /\ UNCHANGED <<dir, lockHolder, started, stopChan, eventChan, watcher, fsEvents, wg,
                   tpc, tlist, tret, dlwHist>>

\* The goroutine: d.eventChan <- the event; after an Error event the zero
\* fsnotify event does not split, and the loop continues.
GoPut ==
    /\ gPc \in {"put", "putErr"}
    /\ Len(eventChan) < EventChanCap
    /\ eventChan' = Append(eventChan, hand)
    /\ dlwHist' = IF gPc = "put" THEN [dlwHist EXCEPT !.put = Append(@, hand)]
                                 ELSE dlwHist
    /\ gPc' = "select"
    /\ hand' = NoEvent
    /\ UNCHANGED <<dir, lockHolder, started, stopChan, watcher, fsEvents, fsError, wg,
                   tpc, tlist, tret>>

\* The informer receives from ResultChan().
Consume ==
    /\ eventChan # <<>>
    /\ eventChan' = Tail(eventChan)
    /\ dlwHist' = IF dlwHist.stopped
                  THEN [dlwHist EXCEPT !.late = Append(@, Head(eventChan))]
                  ELSE dlwHist
    /\ UNCHANGED <<dir, lockHolder, started, stopChan, watcher, fsEvents, fsError, wg,
                   gPc, hand, tpc, tlist, tret>>

\* What a filesystem operation does to the directory.
DirAfter(op, f) ==
    IF op = "Create" THEN dir \cup {f}
    ELSE IF op = "Remove" THEN dir \ {f}
    ELSE dir

\* The filesystem: a file is created, written or removed; the kernel queues
\* an event when the directory is watched.
FsOp ==
    /\ dlwHist.fsOps < MaxFsOps
    /\ \E f \in Files, op \in {"Create", "Write", "Remove"} :
         /\ (op = "Create") = (f \notin dir)
         /\ dir' = DirAfter(op, f)
         /\ IF watcher = "watching"
            THEN /\ fsEvents' = Append(fsEvents, FsEvent(f, op))
                 /\ dlwHist' = [dlwHist EXCEPT !.fsOps = @ + 1,
                                               !.seen = Append(@, FsEvent(f, op))]
            ELSE /\ dlwHist' = [dlwHist EXCEPT !.fsOps = @ + 1]
                 /\ UNCHANGED fsEvents
    /\ UNCHANGED <<lockHolder, started, stopChan, eventChan, watcher, fsError, wg, gPc,
                   hand, tpc, tlist, tret>>

\* The watcher reports an error.
FsError ==
    /\ dlwHist.fsOps < MaxFsOps
    /\ watcher = "watching"
    /\ ~fsError
    /\ fsError' = TRUE
    /\ dlwHist' = [dlwHist EXCEPT !.fsOps = @ + 1]
    /\ UNCHANGED <<dir, lockHolder, started, stopChan, eventChan, watcher, fsEvents, wg,
                   gPc, hand, tpc, tlist, tret>>

NextDlw ==
    /\ \/ \E t \in Callers : CallList(t)
       \/ \E t \in Callers : StartBackgroundLock(t)
       \/ \E t \in Callers : NewWatcher(t)
       \/ \E t \in Callers : WatcherAdd(t)
       \/ \E t \in Callers : ReadDir(t)
       \/ \E t \in Callers : ListReturn(t)
       \/ \E t \in Callers : CallStop(t)
       \/ \E t \in Callers : StopLock(t)
       \/ \E t \in Callers : StopWait(t)
       \/ GoStop
       \/ GoEvent
       \/ GoError
       \/ GoPut
       \/ Consume
       \/ FsOp
       \/ FsError
    /\ UNCHANGED <<routerVars, ndpVars, mergeVars, pureVars>>

SpecDlw == InitDlw /\ [][NextDlw]_vars

(***************************************************************************)
(* Properties of the directory list watcher.                               *)
(***************************************************************************)
InSeq(x, q) == \E i \in 1..Len(q) : q[i] = x

\* A create of f the watcher was given and the goroutine has not put yet.
CreatePending(f) ==
    \/ InSeq(FsEvent(f, "Create"), fsEvents)
    \/ gPc = "put" /\ hand = WatchEvent("ADDED", f)

\* C14: while the watch a List call went through runs, every well-formed
\* file of the directory is in the list that List returned, or an Added
\* event for it was put on the result channel, or its create is on its way
\* through the watcher to the channel: no create is lost, whenever it
\* happens relative to the call.
C14_CreateNeverLost ==
    dlwHist.list.valid =>
        \A f \in dir :
            WellFormed(f) =>
                \/ f \in dlwHist.list.items
                \/ InSeq(WatchEvent("ADDED", f), dlwHist.put)
                \/ CreatePending(f)

\* A file created after the directory was read is not in the list that List
\* returned, and its Added event was put.
C14_Witness ==
    /\ dlwHist.list.valid
    /\ \E f \in dir :
         /\ WellFormed(f)
         /\ f \notin dlwHist.list.items
         /\ InSeq(WatchEvent("ADDED", f), dlwHist.put)

WatchRunning == gPc \in {"select", "put", "putErr"}

WellFormedEvent(event) == WellFormed(event.Name)

\* The event the goroutine holds for the result channel, if any.
InHand == IF gPc = "put" THEN <<hand>> ELSE <<>>

\* C15: while the goroutine of the watch runs, the events put on the result
\* channel (the one in the goroutine's hand included) answer one for one, in
\* order, the creates, modifies and removes of well-formed files the watcher
\* was given, up to those still queued in the watcher: an event for the same
\* file each, a Deleted event exactly for a remove.
C15_OneEventPerChange ==
    WatchRunning =>
        LET want == SelectSeq(dlwHist.seen, WellFormedEvent)
            done == dlwHist.put \o InHand
            pend == SelectSeq(fsEvents, WellFormedEvent)
        IN  /\ Len(want) = Len(done) + Len(pend)
            /\ \A i \in 1..Len(done) :
                 /\ done[i].Name = want[i].Name
                 /\ (done[i].Type = "DELETED") = (want[i].Op = "Remove")
            /\ \A j \in 1..Len(pend) : want[Len(done) + j] = pend[j]

\* A file was created and removed under the running watch and its Added and
\* Deleted events were put.
C15_Witness ==
    /\ WatchRunning
    /\ \E f \in Files :
         /\ dlwHist.seen = <<FsEvent(f, "Create"), FsEvent(f, "Remove")>>
         /\ dlwHist.put = <<WatchEvent("ADDED", f), WatchEvent("DELETED", f)>>

\* The stop channel was closed at most once, and never while nil or closed.
StopClosedOnce == dlwHist.closes <= 1 /\ stopChan # "panic"

\* A Stop that found the watch running has returned (no start since): the
\* goroutine has exited and the watcher is closed.
StopJoined == dlwHist.stopped => gPc = "exited" /\ watcher = "closed" /\ wg = 0

\* A step in which a Stop call returns without having found the watch running.
StopFoundNothing ==
    \E t \in Callers : tpc[t] \in {"stop_lock", "lstop_lock"} /\ tpc'[t] = "idle"

\* C16: Stop closes the stop channel at most once per start, whatever the
\* number and interleaving of Stop calls; a Stop that finds the watch not
\* started (never started, or stopped before) changes no field of the
\* watcher; and after a Stop that found the watch running has returned, the
\* goroutine has exited and the fsnotify watcher is closed.
C16_StopIdempotent ==
    /\ [](StopClosedOnce /\ StopJoined)
    /\ [][StopFoundNothing =>
            UNCHANGED <<dir, lockHolder, started, stopChan, eventChan, watcher,
                        fsEvents, fsError, wg, gPc, hand>>]_vars

\* After a Stop that closed the stop channel and joined the goroutine has
\* returned, another Stop has returned having found nothing to do.
C16_Witness ==
    /\ dlwHist.stopped
    /\ dlwHist.closes = 1
    /\ tret = Returned("Stop", FALSE, {}, FALSE)

\* C17: no event is received from the result channel after a Stop that
\* found the watch running has returned (and before the watch is started
\* again).
C17_NoEventAfterStop == dlwHist.late = <<>>

\* The positions at which a caller is inside a blocking operation: creating
\* the fsnotify watcher, registering the directory, waiting for the goroutine.
BlockingPcs == {"sb_newWatcher", "sb_add", "stop_wait", "lstop_wait"}

\* C18: the lock is not held by a caller that is inside a blocking
\* operation, so no caller waits for the lock behind a blocked one.
C18_LockNotHeldWhileBlocking ==
    \A t \in Callers : lockHolder = t => tpc[t] \notin BlockingPcs

(***************************************************************************)
(* MergeAgentStatusesWithDomainData.                                       *)
(***************************************************************************)
\* The longest domInterfaces and interfaceStatuses passed.
MaxDomInterfaces == 2
MaxStatuses == 2

Macs == {"02:00:00:00:00:01", "02:00:00:00:00:02", "02:00:00:00:00:03"}

\* Alias.GetName() of a domain interface: "" when it has no alias.
Aliases == {"", "default", "secondary"}

\* Interface names the guest agent reports.
AgentNames == {"eth0", "eth1"}

InfoSourceDomain == "InfoSourceDomain"
InfoSourceGuestAgent == "InfoSourceGuestAgent"
InfoSourceDomainAndGA == "InfoSourceDomainAndGA"

\* api.Interface, as far as the merge reads it.
Interface(mac, alias) == [MAC |-> mac, Alias |-> alias]

\* api.InterfaceStatus; Ip stands for the IP data of the record.
InterfaceStatus(mac, name, ip, infoSource) ==
    [Mac |-> mac, Name |-> name, Ip |-> ip, InfoSource |-> infoSource,
     IPs |-> <<>>, InterfaceName |-> ""]

SeqsUpTo(S, n) == UNION {[1..k -> S] : k \in 0..n}

DistinctMacs(doms) ==
    \A i, j \in 1..Len(doms) : doms[i].MAC = doms[j].MAC => i = j

\* The domain's interfaces: each has its own MAC; aliases may repeat or be "".
DomInputs ==
    {doms \in SeqsUpTo({Interface(m, a) : m \in Macs, a \in Aliases}, MaxDomInterfaces) :
        DistinctMacs(doms)}

\* What convertInterfaceStatusesFromAgentJSON hands over: no InfoSource yet.
StatusInputs ==
    SeqsUpTo({InterfaceStatus(m, n, "10.0.2.2", "") : m \in Macs, n \in AgentNames},
             MaxStatuses)

\* The first loop: aliasByMac[mac] = alias, a later interface overwriting an
\* earlier one with the same MAC.
AliasByMac(doms) ==
    [mac \in {doms[i].MAC : i \in 1..Len(doms)} |->
        doms[CHOOSE i \in 1..Len(doms) :
                /\ doms[i].MAC = mac
                /\ \A j \in 1..Len(doms) : doms[j].MAC = mac => j <= i].Alias]

\* Mutant of TagStatus: a matched status keeps its agent-reported name.
TagStatus_keepName(status, aliasByMac) ==
    IF status.Mac \in DOMAIN aliasByMac
    THEN [status EXCEPT !.InfoSource = InfoSourceDomainAndGA]
    ELSE [status EXCEPT !.InfoSource = InfoSourceGuestAgent]

\* The body of the second loop.
TagStatus(status, aliasByMac) ==
    IF status.Mac \in DOMAIN aliasByMac
    THEN [status EXCEPT !.Name = aliasByMac[status.Mac],
                        !.InfoSource = InfoSourceDomainAndGA]
    ELSE [status EXCEPT !.InfoSource = InfoSourceGuestAgent]

\* aliasesCoveredByAgent after the second loop, as a set.
AliasesCoveredByAgent(statuses, aliasByMac) ==
    {aliasByMac[statuses[i].Mac] :
        i \in {k \in 1..Len(statuses) : statuses[k].Mac \in DOMAIN aliasByMac}}

\* The MACs the third loop appends a record for: those whose alias is not
\* among the covered aliases.
NotCovered(aliasByMac, covered) ==
    {mac \in DOMAIN aliasByMac : aliasByMac[mac] \notin covered}

\* The orders in which the range over the map can visit a set of keys.
Orders(S) ==
    {q \in [1..Cardinality(S) -> S] : \A i, j \in DOMAIN q : q[i] = q[j] => i = j}

InitMerge ==
    /\ RouterOff
    /\ NdpOff
    /\ DlwOff
    /\ domInterfaces \in DomInputs
    /\ interfaceStatuses \in StatusInputs
    /\ reported = interfaceStatuses
    /\ merged = <<>>
    /\ mergePc = "call"
    /\ PureOff

\* The lists the function can return for its arguments: the statuses
\* tagged, then one record per MAC not covered, in the order the range
\* over aliasByMac happens to visit them.
MergeResults(doms, statuses) ==
    LET aliasByMac == AliasByMac(doms)
        tagged == [i \in 1..Len(statuses) |-> TagStatus(statuses[i], aliasByMac)]
        covered == AliasesCoveredByAgent(statuses, aliasByMac)
    IN  {tagged \o [i \in 1..Len(order) |->
                       InterfaceStatus(order[i], aliasByMac[order[i]], "",
                                       InfoSourceDomain)] :
            order \in Orders(NotCovered(aliasByMac, covered))}

MergeAgentStatusesWithDomainData ==
    /\ mergePc = "call"
    /\ interfaceStatuses' = [i \in 1..Len(interfaceStatuses) |->
                                TagStatus(interfaceStatuses[i], AliasByMac(domInterfaces))]
    /\ merged' \in MergeResults(domInterfaces, interfaceStatuses)
    /\ mergePc' = "done"
    /\ UNCHANGED <<domInterfaces, reported>>

NextMerge ==
    /\ MergeAgentStatusesWithDomainData
    /\ UNCHANGED <<routerVars, ndpVars, dlwVars, pureVars>>

SpecMerge == InitMerge /\ [][NextMerge]_vars

(***************************************************************************)
(* Properties of the merge.                                                *)
(***************************************************************************)
DomMacs == {domInterfaces[i].MAC : i \in 1..Len(domInterfaces)}

AliasesOf(mac) ==
    {domInterfaces[i].Alias : i \in {k \in 1..Len(domInterfaces) : domInterfaces[k].MAC = mac}}

\* C19: in the result, every agent-reported status stays at its place with its
\* MAC and IP data; one whose MAC is the MAC of a domain interface is named
\* by that interface's alias and tagged as known to domain and guest agent;
\* one whose MAC matches no domain interface keeps its name and is tagged as
\* known to the guest agent.
C19_AgentStatusesTagged ==
    mergePc = "done" =>
        /\ Len(merged) >= Len(reported)
        /\ \A i \in 1..Len(reported) :
             /\ merged[i].Mac = reported[i].Mac
             /\ merged[i].Ip = reported[i].Ip
             /\ IF reported[i].Mac \in DomMacs
                THEN /\ merged[i].Name \in AliasesOf(reported[i].Mac)
                     /\ merged[i].InfoSource = InfoSourceDomainAndGA
                ELSE /\ merged[i].Name = reported[i].Name
                     /\ merged[i].InfoSource = InfoSourceGuestAgent

\* A merge of one matching and one unmatched agent status.
C19_Witness ==
    /\ mergePc = "done"
    /\ \E i, j \in 1..Len(reported) :
         /\ merged[i].InfoSource = InfoSourceDomainAndGA
         /\ merged[i].Name # reported[i].Name
         /\ merged[j].InfoSource = InfoSourceGuestAgent

\* C20: for every domain interface whose MAC no agent status reports, the
\* result holds, after the agent's statuses, exactly one record with that MAC,
\* and it carries the interface's alias, the tag of the domain and no IP
\* data.
C20_UnmatchedAppended ==
    mergePc = "done" =>
        \A d \in 1..Len(domInterfaces) :
            (\A i \in 1..Len(reported) : reported[i].Mac # domInterfaces[d].MAC) =>
                /\ Cardinality({k \in 1..Len(merged) :
                                    merged[k].Mac = domInterfaces[d].MAC}) = 1
                /\ \E k \in (Len(reported) + 1)..Len(merged) :
                     merged[k] = InterfaceStatus(domInterfaces[d].MAC,
                                                 domInterfaces[d].Alias, "",
                                                 InfoSourceDomain)

(***************************************************************************)
(* The guest agent's interface report: extractIPs and                      *)
(* convertInterfaceStatusesFromAgentJSON.                                  *)
(***************************************************************************)
\* The longest list of addresses of one interface.
MaxAddresses == 3

\* The struct IP, as far as it is read: a reply may leave "ip-address" out,
\* which unmarshals to the empty string.
AgentIP(ip, type) == [IP |-> ip, Type |-> type]

AgentIPs ==
    {AgentIP("10.0.2.2", "ipv4"), AgentIP("10.0.2.3", "ipv4"),
     AgentIP("fe80::1", "ipv6"), AgentIP("", "ipv4")}

\* The loop of extractIPs from address k on.
RECURSIVE ExtractLoop(_, _, _, _)
ExtractLoop(addrs, k, interfaceIP, interfaceIPs) ==
    IF k > Len(addrs)
    THEN [interfaceIP |-> interfaceIP, interfaceIPs |-> interfaceIPs]
    ELSE ExtractLoop(addrs, k + 1,
                     IF addrs[k].Type = "ipv4" /\ interfaceIP = ""
                     THEN addrs[k].IP ELSE interfaceIP,
                     Append(interfaceIPs, addrs[k].IP))

extractIPs(addrs) ==
    LET loop == ExtractLoop(addrs, 1, "", <<>>)
    IN  IF loop.interfaceIP = "" /\ Len(loop.interfaceIPs) > 0
        THEN [loop EXCEPT !.interfaceIP = loop.interfaceIPs[1]]
        ELSE loop

InitExtract ==
    /\ RouterOff
    /\ NdpOff
    /\ DlwOff
    /\ MergeOff
    /\ DnsOff
    /\ SetupOff
    /\ agentResult = <<>>
    /\ ipAddresses \in SeqsUpTo(AgentIPs, MaxAddresses)
    /\ extracted = [interfaceIP |-> "", interfaceIPs |-> <<>>]
    /\ agentReply = <<>>
    /\ parseRet = [fn |-> "", panic |-> FALSE, err |-> FALSE, response |-> <<>>]
    /\ agentPc = "extract"

ExtractIPs ==
    /\ agentPc = "extract"
    /\ extracted' = extractIPs(ipAddresses)
    /\ agentPc' = "done"
    /\ UNCHANGED <<agentResult, ipAddresses, agentReply, parseRet>>

NextExtract ==
    /\ ExtractIPs
    /\ UNCHANGED <<routerVars, ndpVars, dlwVars, mergeVars, dnsVars, setupVars>>

SpecExtract == InitExtract /\ [][NextExtract]_vars

Ipv4At == {k \in 1..Len(ipAddresses) : ipAddresses[k].Type = "ipv4"}

FirstOf(S) == CHOOSE k \in S : \A j \in S : k <= j

\* C22: extractIPs returns every address in report order, and as summary the
\* first address of type ipv4, else the first address, else "".
C22_SummaryPrefersFirstIPv4 ==
    agentPc = "done" =>
        /\ extracted.interfaceIPs =
              [k \in 1..Len(ipAddresses) |-> ipAddresses[k].IP]
        /\ extracted.interfaceIP =
              IF Ipv4At # {} THEN ipAddresses[FirstOf(Ipv4At)].IP
              ELSE IF Len(ipAddresses) > 0 THEN ipAddresses[1].IP
              ELSE ""

\* The longest agentResult.
MaxAgentInterfaces == 2

\* The struct Interface of the agent's reply.
AgentInterface(mac, ips, name) == [MAC |-> mac, IPs |-> ips, Name |-> name]

AgentInterfaces ==
    {AgentInterface(m, ips, n) :
        m \in Macs,
        ips \in {<<>>, <<AgentIP("10.0.2.2", "ipv4")>>},
        n \in {"lo", "eth0", "eth1"}}

\* Mutant of IsLoopback: no interface is taken for the loopback.
IsLoopback_never(ifc) == FALSE

\* The test of the loop of convertInterfaceStatusesFromAgentJSON.
IsLoopback(ifc) == ifc.Name = "lo"

\* The api.InterfaceStatus the loop appends for an interface.
ConvertedStatus(ifc) ==
    [Mac |-> ifc.MAC, Name |-> "", Ip |-> extractIPs(ifc.IPs).interfaceIP,
     InfoSource |-> "", IPs |-> extractIPs(ifc.IPs).interfaceIPs,
     InterfaceName |-> ifc.Name]

RECURSIVE convertInterfaceStatusesFromAgentJSON(_)
convertInterfaceStatusesFromAgentJSON(agentIfcs) ==
    IF agentIfcs = <<>> THEN <<>>
    ELSE IF IsLoopback(Head(agentIfcs))
         THEN convertInterfaceStatusesFromAgentJSON(Tail(agentIfcs))
         ELSE <<ConvertedStatus(Head(agentIfcs))>> \o
              convertInterfaceStatusesFromAgentJSON(Tail(agentIfcs))

InitConvert ==
    /\ RouterOff
    /\ NdpOff
    /\ DlwOff
    /\ DnsOff
    /\ SetupOff
    /\ agentResult \in SeqsUpTo(AgentInterfaces, MaxAgentInterfaces)
    /\ ipAddresses = <<>>
    /\ extracted = [interfaceIP |-> "", interfaceIPs |-> <<>>]
    /\ agentReply = <<>>
    /\ parseRet = [fn |-> "", panic |-> FALSE, err |-> FALSE, response |-> <<>>]
    /\ agentPc = "convert"
    /\ domInterfaces \in {doms \in DomInputs : Len(doms) <= 1}
    /\ interfaceStatuses = <<>>
    /\ reported = <<>>
    /\ merged = <<>>
    /\ mergePc = "off"

\* The statuses converted from the agent's report are handed to the merge.
ConvertInterfaceStatuses ==
    /\ agentPc = "convert"
    /\ interfaceStatuses' = convertInterfaceStatusesFromAgentJSON(agentResult)
    /\ reported' = interfaceStatuses'
    /\ mergePc' = "call"
    /\ agentPc' = "merge"
    /\ UNCHANGED <<agentResult, ipAddresses, extracted, agentReply, parseRet,
                   domInterfaces, merged>>

NextConvert ==
    /\ \/ ConvertInterfaceStatuses
       \/ MergeAgentStatusesWithDomainData /\ UNCHANGED agentVars
    /\ UNCHANGED <<routerVars, ndpVars, dlwVars, dnsVars, setupVars>>

SpecConvert == InitConvert /\ [][NextConvert]_vars

NotLoopback(ifc) == ifc.Name # "lo"

\* C21: the converted list holds, in report order and once each, a status for
\* every agent interface not named lo, with its MAC and interface name, and
\* none for an interface named lo; after the merge these statuses are still
\* the head of the list, and every record behind them comes from the domain:
\* no status of the list carries the interface name lo.
C21_LoopbackExcluded ==
    LET kept == SelectSeq(agentResult, NotLoopback)
    IN  /\ agentPc = "merge" =>
            /\ Len(reported) = Len(kept)
            /\ \A k \in 1..Len(kept) :
                 /\ reported[k].Mac = kept[k].MAC
                 /\ reported[k].InterfaceName = kept[k].Name
                 /\ reported[k].IPs = [j \in 1..Len(kept[k].IPs) |-> kept[k].IPs[j].IP]
        /\ mergePc = "done" =>
            /\ Len(merged) >= Len(kept)
            /\ \A k \in 1..Len(merged) :
                 /\ merged[k].InterfaceName # "lo"
                 /\ IF k <= Len(kept)
                    THEN /\ merged[k].Mac = kept[k].MAC
                         /\ merged[k].InterfaceName = kept[k].Name
                    ELSE /\ merged[k].InfoSource = InfoSourceDomain
                         /\ merged[k].InterfaceName = ""

\* A report with the loopback and another interface was converted and merged
\* with a domain interface the agent did not report.
C21_Witness ==
    /\ mergePc = "done"
    /\ \E k \in 1..Len(agentResult) : agentResult[k].Name = "lo"
    /\ \E k \in 1..Len(agentResult) : agentResult[k].Name # "lo"
    /\ Len(merged) > Len(reported)

(***************************************************************************)
(* The parse functions of the guest agent's replies.  A reply is a         *)
(* sequence of tokens: the braces and brackets, the key "return": and x    *)
(* for any other text (a member, a scalar, or something that is not JSON). *)
(***************************************************************************)
\* The longest reply, in tokens.
MaxReplyLen == 5

ReplyTokens == {"{", "}", "[", "]", "return:", "x"}

\* The matches of stripRE in a reply: an opening brace at i, the key, a
\* capture from i + 2 that begins with a brace or bracket and ends at k with
\* a closing one, and the closing brace of the wrapper.
StripMatches(reply) ==
    {m \in (1..Len(reply)) \X (1..Len(reply)) :
        /\ m[2] > m[1] + 2
        /\ m[2] + 1 <= Len(reply)
        /\ reply[m[1]] = "{"
        /\ reply[m[1] + 1] = "return:"
        /\ reply[m[1] + 2] \in {"{", "["}
        /\ reply[m[2]] \in {"}", "]"}
        /\ reply[m[2] + 1] = "}"}

\* stripRE.FindStringSubmatch(agentReply): nil when nothing matches, else the
\* leftmost match with the longest capture.
FindStringSubmatch(reply) ==
    IF StripMatches(reply) = {} THEN [nil |-> TRUE, capture |-> <<>>]
    ELSE LET m == CHOOSE m \in StripMatches(reply) :
                    \A n \in StripMatches(reply) :
                        \/ m[1] < n[1]
                        \/ m[1] = n[1] /\ m[2] >= n[2]
         IN  [nil |-> FALSE, capture |-> SubSeq(reply, m[1] + 2, m[2])]

\* stripAgentResponse: element 1 of the submatches; indexing nil panics.
stripAgentResponse(reply) ==
    LET found == FindStringSubmatch(reply)
    IN  [panic |-> found.nil, response |-> found.capture]

\* JSON over the tokens: where the value, the rest of an object or the rest
\* of an array that starts at p ends (the position behind it), 0 if it is
\* not one.
RECURSIVE JsonValue(_, _), JsonMembers(_, _), JsonElements(_, _)
JsonValue(q, p) ==
    IF p > Len(q) THEN 0
    ELSE IF q[p] = "{" THEN JsonMembers(q, p + 1)
    ELSE IF q[p] = "[" THEN JsonElements(q, p + 1)
    ELSE 0

JsonMembers(q, p) ==
    IF p > Len(q) THEN 0
    ELSE IF q[p] = "}" THEN p + 1
    ELSE IF q[p] = "x" THEN JsonMembers(q, p + 1)
    ELSE IF q[p] = "return:"
         THEN LET e == IF p + 1 <= Len(q) /\ q[p + 1] = "x" THEN p + 2
                       ELSE JsonValue(q, p + 1)
              IN  IF e = 0 THEN 0 ELSE JsonMembers(q, e)
    ELSE 0

JsonElements(q, p) ==
    IF p > Len(q) THEN 0
    ELSE IF q[p] = "]" THEN p + 1
    ELSE IF q[p] = "x" THEN JsonElements(q, p + 1)
    ELSE IF q[p] \in {"{", "["}
         THEN LET e == JsonValue(q, p)
              IN  IF e = 0 THEN 0 ELSE JsonElements(q, e)
    ELSE 0

\* What each parse function unmarshals into: a struct or a slice.
ParseTarget ==
    [parseGuestOSInfo |-> "{", parseInterfaces |-> "[", parseHostname |-> "{",
     parseTimezone |-> "{", parseFilesystem |-> "[", parseUsers |-> "[",
     parseAgent |-> "{"]

ParseFunctions == DOMAIN ParseTarget

\* json.Unmarshal(response, &target) returns an error: the text is not JSON,
\* or it is an array for a struct or an object for a slice.
jsonUnmarshalFails(response, target) ==
    \/ JsonValue(response, 1) # Len(response) + 1
    \/ response[1] # target

InitParse ==
    /\ RouterOff
    /\ NdpOff
    /\ DlwOff
    /\ MergeOff
    /\ DnsOff
    /\ SetupOff
    /\ agentResult = <<>>
    /\ ipAddresses = <<>>
    /\ extracted = [interfaceIP |-> "", interfaceIPs |-> <<>>]
    /\ agentReply \in SeqsUpTo(ReplyTokens, MaxReplyLen)
    /\ parseRet = [fn |-> "", panic |-> FALSE, err |-> FALSE, response |-> <<>>]
    /\ agentPc = "parse"

\* One of parseGuestOSInfo, parseInterfaces, parseHostname, parseTimezone,
\* parseFilesystem, parseUsers, parseAgent: strip, then unmarshal.
Parse(fn) ==
    /\ agentPc = "parse"
    /\ LET stripped == stripAgentResponse(agentReply)
       IN  parseRet' =
             IF stripped.panic
             THEN [fn |-> fn, panic |-> TRUE, err |-> FALSE, response |-> <<>>]
             ELSE [fn |-> fn, panic |-> FALSE,
                   err |-> jsonUnmarshalFails(stripped.response, ParseTarget[fn]),
                   response |-> stripped.response]
    /\ agentPc' = "done"
    /\ UNCHANGED <<agentResult, ipAddresses, extracted, agentReply>>

NextParse ==
    /\ \E fn \in ParseFunctions : Parse(fn)
    /\ UNCHANGED <<routerVars, ndpVars, dlwVars, mergeVars, dnsVars, setupVars>>

SpecParse == InitParse /\ [][NextParse]_vars

\* C23: no reply makes a parse function panic: for a reply without the
\* wrapper, or one that wraps what is not JSON, it returns.
C23_MalformedNeverFatal == agentPc = "done" => ~parseRet.panic

(***************************************************************************)
(* Package dns: ParseNameservers and ParseSearchDomains.  A text is the    *)
(* sequence of its lines; a line is given with what the code computes      *)
(* from it: whether it has the prefix, what the two regular expressions    *)
(* find in it, and the fields behind the prefix.                           *)
(***************************************************************************)
\* The longest text, in lines.
MaxLines == 2

nameserverPrefix == "nameserver"
domainSearchPrefix == "search"
defaultIPv4DNS == "8.8.8.8"
defaultSearchDomain == "cluster.local"

\* A line: its text; the prefix it has; reIPv6.FindString and
\* reIPv4.FindString of it; strings.Fields of it behind the prefix; and
\* whether it is longer than the scanner's buffer (bufio.MaxScanTokenSize).
Line(text, prefix, v6, v4, fields, tooLong) ==
    [text |-> text, prefix |-> prefix, reIPv6 |-> v6, reIPv4 |-> v4,
     fields |-> fields, tooLong |-> tooLong]

Lines ==
    {Line("nameserver 8.8.8.8", nameserverPrefix, "", "8.8.8.8", <<"8.8.8.8">>, FALSE),
     Line("nameserver 2001:4860:4860::8888", nameserverPrefix,
          "2001:4860:4860::8888", "2001:4860:", <<"2001:4860:4860::8888">>, FALSE),
     Line("nameserver mynameserver", nameserverPrefix, "", "", <<"mynameserver">>, FALSE),
     Line("nameserver ::ffff:10.0.0.1", nameserverPrefix,
          "::ffff:10", "10.0.0.1", <<"::ffff:10.0.0.1">>, FALSE),
     Line("nameserver 10.0.0.10 ", nameserverPrefix, "", "10.0.0.10 ", <<"10.0.0.10">>, FALSE),
     Line("options ndots:5", "", "", "", <<>>, FALSE),
     Line("search cluster.local svc.cluster.local", domainSearchPrefix, "", "",
          <<"cluster.local", "svc.cluster.local">>, FALSE),
     Line("search LoCaL", domainSearchPrefix, "", "", <<"LoCaL">>, FALSE),
     Line("search", domainSearchPrefix, "", "", <<>>, FALSE),
     Line("search example.com, then 64 KiB of blanks", domainSearchPrefix, "", "",
          <<"example.com">>, TRUE)}

\* net.ParseIP: the address in its canonical text, "nil" when the text is
\* not an address.
ParseIP(text) ==
    IF text \in {"8.8.8.8", "10.0.0.1", "10.0.0.10", "2001:4860:4860::8888", "::ffff:10"}
    THEN text
    ELSE IF text = "::ffff:10.0.0.1" THEN "10.0.0.1"
    ELSE "nil"

\* strings.ToLower.
ToLower(text) == IF text = "LoCaL" THEN "local" ELSE text

\* The body of the loop of ParseNameservers for one line.
NameserverOf(line, found) ==
    IF line.prefix # nameserverPrefix THEN found
    ELSE IF ParseIP(line.reIPv6) # "nil"
         THEN [found EXCEPT !.ipv6 = Append(@, ParseIP(line.reIPv6))]
    ELSE IF ParseIP(line.reIPv4) # "nil"
         THEN [found EXCEPT !.ipv4 = Append(@, ParseIP(line.reIPv4))]
    ELSE found

\* for scanner.Scan(): the loop ends at the end of the text, or at a line
\* the scanner cannot hold, which scanner.Err() then reports.
RECURSIVE ScanNameservers(_, _, _)
ScanNameservers(lines, k, found) ==
    IF k > Len(lines) THEN found
    ELSE IF lines[k].tooLong THEN [found EXCEPT !.err = TRUE]
    ELSE ScanNameservers(lines, k + 1, NameserverOf(lines[k], found))

ParseNameservers(lines) ==
    LET found == ScanNameservers(lines, 1, [NoNameservers EXCEPT !.called = TRUE])
    IN  IF found.err THEN found
        ELSE IF Len(found.ipv4) = 0 /\ Len(found.ipv6) = 0
             THEN [found EXCEPT !.ipv4 = <<ParseIP(defaultIPv4DNS)>>]
        ELSE found

InitResolv ==
    /\ RouterOff
    /\ NdpOff
    /\ DlwOff
    /\ MergeOff
    /\ AgentOff
    /\ SetupOff
    /\ content \in SeqsUpTo(Lines, MaxLines)
    /\ nameservers = NoNameservers
    /\ searchDomains = NoSearchDomains
    /\ subdomain = <<>>
    /\ domainName = <<>>
    /\ dnsPc = "resolv"

CallParseNameservers ==
    /\ dnsPc = "resolv"
    /\ ~nameservers.called
    /\ nameservers' = ParseNameservers(content)
    /\ UNCHANGED <<content, searchDomains, subdomain, domainName, dnsPc>>

\* Mutant of AccumulateDomains: a later search line replaces the earlier ones.
AccumulateDomains_replace(found, doms) == doms

\* searchDomains = append(searchDomains, ...) for the fields of one line.
AccumulateDomains(found, doms) == found \o doms

\* The body of the loop of ParseSearchDomains for one line.
SearchDomainsOf(line, found) ==
    IF line.prefix # domainSearchPrefix THEN found
    ELSE [found EXCEPT !.domains =
            AccumulateDomains(@, [j \in 1..Len(line.fields) |-> ToLower(line.fields[j])])]

RECURSIVE ScanSearchDomains(_, _, _)
ScanSearchDomains(lines, k, found) ==
    IF k > Len(lines) THEN found
    ELSE IF lines[k].tooLong THEN [found EXCEPT !.err = TRUE]
    ELSE ScanSearchDomains(lines, k + 1, SearchDomainsOf(lines[k], found))

ParseSearchDomains(lines) ==
    LET found == ScanSearchDomains(lines, 1, [NoSearchDomains EXCEPT !.called = TRUE])
    IN  IF found.err THEN [found EXCEPT !.domains = <<>>]
        ELSE IF Len(found.domains) = 0
             THEN [found EXCEPT !.domains = <<defaultSearchDomain>>]
        ELSE found

CallParseSearchDomains ==
    /\ dnsPc = "resolv"
    /\ ~searchDomains.called
    /\ searchDomains' = ParseSearchDomains(content)
    /\ UNCHANGED <<content, nameservers, subdomain, domainName, dnsPc>>

NextResolv ==
    /\ \/ CallParseNameservers
       \/ CallParseSearchDomains
    /\ UNCHANGED <<routerVars, ndpVars, dlwVars, mergeVars, agentVars, setupVars>>

SpecResolv == InitResolv /\ [][NextResolv]_vars

\* The address a nameserver line names: the field behind the keyword.
NamedAddress(line) ==
    IF line.prefix = nameserverPrefix /\ Len(line.fields) > 0
    THEN ParseIP(line.fields[1]) ELSE "nil"

\* The text is written with colons, as IPv6 addresses are.
HasColon(text) == text \in {"2001:4860:4860::8888", "::ffff:10.0.0.1", "::ffff:10"}

NamesIPv6(line) == NamedAddress(line) # "nil" /\ HasColon(line.fields[1])

NamesIPv4(line) == NamedAddress(line) # "nil" /\ ~NamesIPv6(line)

AddressesOf(lines) == [k \in 1..Len(lines) |-> NamedAddress(lines[k])]

\* C24: ParseNameservers never returns both lists empty; the IPv6 list holds
\* the addresses of the nameserver lines that name an IPv6 address and the
\* IPv4 list those of the lines that name an IPv4 address, in file order,
\* every other line being skipped without an error; when no line names an
\* address the IPv4 list is the default 8.8.8.8 alone.
C24_NameserversNeverEmpty ==
    nameservers.called =>
        /\ ~nameservers.err
        /\ Len(nameservers.ipv4) + Len(nameservers.ipv6) > 0
        /\ nameservers.ipv6 = AddressesOf(SelectSeq(content, NamesIPv6))
        /\ nameservers.ipv4 =
              IF \E k \in 1..Len(content) : NamedAddress(content[k]) # "nil"
              THEN AddressesOf(SelectSeq(content, NamesIPv4))
              ELSE <<defaultIPv4DNS>>

IsSearchLine(line) == line.prefix = domainSearchPrefix

\* The token in lower case.
LowerCaseOf(token) == IF token = "LoCaL" THEN "local" ELSE token

\* The tokens of the search lines from line k on, in file order.
RECURSIVE SearchTokens(_, _)
SearchTokens(lines, k) ==
    IF k > Len(lines) THEN <<>>
    ELSE (IF IsSearchLine(lines[k]) THEN lines[k].fields ELSE <<>>) \o
         SearchTokens(lines, k + 1)

\* The returned domains are the tokens of the search lines, lower-cased, or
\* the default when there is none.
DomainsAreSearchTokens ==
    LET tokens == SearchTokens(content, 1)
    IN  IF tokens = <<>>
        THEN searchDomains.domains = <<defaultSearchDomain>>
        ELSE /\ Len(searchDomains.domains) = Len(tokens)
             /\ \A j \in 1..Len(tokens) :
                  searchDomains.domains[j] = LowerCaseOf(tokens[j])

MaxDomains == 3

\* Search domain entries: service entries of equal and of different
\* length, entries that are no service entry, one of them the longest of
\* all, and a service entry that already starts with a subdomain.
DomainNames ==
    { "default.svc.cluster.local",
      "another.svc.cluster.local",
      "svc.cluster.local",
      "cluster.local",
      "this.is.a.very.very.very.long.entry",
      "subdomain.default.svc.cluster.local",
      "example.com" }

Subdomains == {"", "subdomain", "default", "sub"}

k8sServiceInfix == ".svc."

\* strings.Contains
Contains(s, substr) ==
    \E i \in 1..(Len(s) - Len(substr) + 1) :
        SubSeq(s, i, i + Len(substr) - 1) = substr

\* strings.HasPrefix
HasPrefix(s, prefix) ==
    Len(s) >= Len(prefix) /\ SubSeq(s, 1, Len(prefix)) = prefix

RECURSIVE GetServiceDomainList(_)
GetServiceDomainList(domains) ==
    IF domains = <<>> THEN <<>>
    ELSE LET d == Head(domains)
             rest == GetServiceDomainList(Tail(domains))
         IN IF Contains(d, k8sServiceInfix) THEN <<d>> \o rest ELSE rest

LongerThan_orEqual(d, selected) == Len(d) >= Len(selected)

\* if len(d) > len(selected)
LongerThan(d, selected) == Len(d) > Len(selected)

RECURSIVE GetDomainNameLoop(_, _)
GetDomainNameLoop(domains, selected) ==
    IF domains = <<>> THEN selected
    ELSE GetDomainNameLoop(Tail(domains),
             IF LongerThan(Head(domains), selected) THEN Head(domains)
             ELSE selected)

GetDomainName(domains) == GetDomainNameLoop(domains, "")

GetLongestServiceDomainName(domains) ==
    GetDomainName(GetServiceDomainList(domains))

DomainNameWithSubdomain(domains, sub) ==
    IF sub = "" THEN ""
    ELSE LET name == GetLongestServiceDomainName(domains)
         IN IF name # "" /\ ~HasPrefix(name, sub \o ".")
            THEN sub \o "." \o name
            ELSE ""

InitSubdomain ==
    /\ RouterOff
    /\ NdpOff
    /\ DlwOff
    /\ MergeOff
    /\ AgentOff
    /\ SetupOff
    /\ content = <<>>
    /\ nameservers = NoNameservers
    /\ \E domains \in SeqsUpTo(DomainNames, MaxDomains) :
           searchDomains = [called |-> TRUE, domains |-> domains, err |-> FALSE]
    /\ subdomain \in Subdomains
    /\ domainName = <<>>
    /\ dnsPc = "subdomain"

CallDomainNameWithSubdomain ==
    /\ dnsPc = "subdomain"
    /\ domainName' = DomainNameWithSubdomain(searchDomains.domains, subdomain)
    /\ dnsPc' = "done"
    /\ UNCHANGED <<content, nameservers, searchDomains, subdomain>>

NextSubdomain ==
    /\ CallDomainNameWithSubdomain
    /\ UNCHANGED <<routerVars, ndpVars, dlwVars, mergeVars, agentVars, setupVars>>

SpecSubdomain == InitSubdomain /\ [][NextSubdomain]_vars

\* The entry at position i is a service entry.
ServiceEntry(i) == Contains(searchDomains.domains[i], ".svc.")

ServiceEntries == {i \in 1..Len(searchDomains.domains) : ServiceEntry(i)}

\* The position of the first longest service entry.
FirstLongestService ==
    CHOOSE i \in ServiceEntries :
        /\ \A j \in ServiceEntries :
               Len(searchDomains.domains[j]) <= Len(searchDomains.domains[i])
        /\ \A j \in ServiceEntries :
               j < i => Len(searchDomains.domains[j]) < Len(searchDomains.domains[i])

NothingToAdd ==
    \/ subdomain = ""
    \/ ServiceEntries = {}
    \/ HasPrefix(searchDomains.domains[FirstLongestService], subdomain \o ".")

\* C26: DomainNameWithSubdomain(domains, sub) returns sub + "." + D, where
\* D is the first longest element of domains containing ".svc.", and it
\* returns the empty string exactly when sub is empty, no element contains
\* ".svc.", or D already starts with sub + "."; entries that are no
\* service entry never count, however long, and D is found at any
\* position of the list.
C26_SubdomainAddedToLongestService ==
    dnsPc = "done" =>
        /\ (domainName = "") <=> NothingToAdd
        /\ ~NothingToAdd =>
               domainName =
                   subdomain \o "." \o searchDomains.domains[FirstLongestService]

\* Two service entries of the same length behind the longest entry of
\* all, which is no service entry: the first of the two is extended.
C26_Witness ==
    /\ dnsPc = "done"
    /\ subdomain = "subdomain"
    /\ searchDomains.domains = << "this.is.a.very.very.very.long.entry",
                                  "another.svc.cluster.local",
                                  "default.svc.cluster.local" >>
    /\ domainName = "subdomain.another.svc.cluster.local"

\* ---------------------------------------------------------------------
\* package network: SetupNetworkInterfacesPhase1
\* ---------------------------------------------------------------------

\* The longest list of networks a VMI declares.
MaxNetworks == 3

NetworkNames == {"additional1", "default", "additional2"}

\* v1.Network with a Multus source.
MultusNetwork(name, isDefault) == [Name |-> name, Default |-> isDefault]

\* The lists of networks a VMI may declare: distinct names, at most one
\* of them marked Default.
NetworkLists ==
    { nets \in SeqsUpTo({MultusNetwork(n, d) : n \in NetworkNames, d \in BOOLEAN},
                        MaxNetworks) :
        /\ \A i, j \in 1..Len(nets) : nets[i].Name = nets[j].Name => i = j
        /\ \A i, j \in 1..Len(nets) : nets[i].Default /\ nets[j].Default => i = j }

\* The interfaces of a VMI: one for each network, by its name, in any order.
InterfaceLists(nets) ==
    { ifaces \in SeqsUpTo(NetworkNames, Len(nets)) :
        /\ Len(ifaces) = Len(nets)
        /\ \A i \in 1..Len(nets) : \E j \in 1..Len(ifaces) : ifaces[j] = nets[i].Name }

NextSlot_countDefault(nets, used) == used + 1

\* The slots taken before the next network: the default network takes none.
NextSlot(nets, used) == IF Head(nets).Default THEN used ELSE used + 1

\* The slot of each network, in declaration order: 0 for the network
\* marked Default, 1, 2, ... for the others.
RECURSIVE CniSlots(_, _)
CniSlots(nets, used) ==
    IF nets = <<>> THEN <<>>
    ELSE <<IF Head(nets).Default THEN 0 ELSE NextSlot(nets, used)>>
         \o CniSlots(Tail(nets), NextSlot(nets, used))

\* The pod interface of a slot.
PodInterfaceName(slot) == IF slot = 0 THEN "eth0" ELSE "net" \o ToString(slot)

\* The position of the network called name.
NetworkIndex(nets, name) == CHOOSE i \in 1..Len(nets) : nets[i].Name = name

\* PlugPhase1(vmi, &Interfaces[i], network, podInterfaceName, pid)
PlugPhase1(i, network, podInterfaceName) ==
    [iface |-> i, network |-> network, podInterfaceName |-> podInterfaceName]

SetupNetworkInterfacesPhase1(nets, ifaces) ==
    LET slots == CniSlots(nets, 0)
    IN [i \in 1..Len(ifaces) |->
           LET n == NetworkIndex(nets, ifaces[i])
           IN PlugPhase1(i, nets[n], PodInterfaceName(slots[n]))]

InitSetup ==
    /\ RouterOff
    /\ NdpOff
    /\ DlwOff
    /\ MergeOff
    /\ AgentOff
    /\ DnsOff
    /\ vmiNetworks \in NetworkLists
    /\ vmiInterfaces \in InterfaceLists(vmiNetworks)
    /\ plugCalls = <<>>
    /\ setupPc = "setup"

CallSetupNetworkInterfacesPhase1 ==
    /\ setupPc = "setup"
    /\ plugCalls' = SetupNetworkInterfacesPhase1(vmiNetworks, vmiInterfaces)
    /\ setupPc' = "done"
    /\ UNCHANGED <<vmiNetworks, vmiInterfaces>>

NextSetup ==
    /\ CallSetupNetworkInterfacesPhase1
    /\ UNCHANGED <<routerVars, ndpVars, dlwVars, mergeVars, agentVars, dnsVars>>

SpecSetup == InitSetup /\ [][NextSetup]_vars

\* The networks declared before position n that are not marked Default.
OthersBefore(n) == {k \in 1..(n - 1) : ~vmiNetworks[k].Default}

NetN(n) == CASE n = 1 -> "net1" [] n = 2 -> "net2" [] n = 3 -> "net3"
             [] n = 4 -> "net4" [] OTHER -> "net"

\* The pod interface the network at position n is to be plugged on.
SlotOf(n) ==
    IF vmiNetworks[n].Default THEN "eth0"
    ELSE NetN(Cardinality(OthersBefore(n)) + 1)

\* C27: the Multus network marked Default is plugged on eth0 at whatever
\* position it is declared, the other Multus networks are plugged on
\* net1, net2, ... in declaration order, the default network taking no
\* number, and each interface is plugged exactly once, with the network
\* of its name.
C27_DefaultMultusOnEth0 ==
    setupPc = "done" =>
        /\ Len(plugCalls) = Len(vmiInterfaces)
        /\ \A i \in 1..Len(vmiInterfaces) :
               /\ Cardinality({c \in 1..Len(plugCalls) : plugCalls[c].iface = i}) = 1
               /\ \A c \in 1..Len(plugCalls) :
                      plugCalls[c].iface = i =>
                          /\ plugCalls[c].network.Name = vmiInterfaces[i]
                          /\ \E n \in 1..Len(vmiNetworks) :
                                 /\ vmiNetworks[n] = plugCalls[c].network
                                 /\ plugCalls[c].podInterfaceName = SlotOf(n)

\* The networks additional1, default (marked Default), additional2 are
\* plugged on net1, eth0, net2.
C27_Witness ==
    /\ setupPc = "done"
    /\ vmiNetworks = << MultusNetwork("additional1", FALSE),
                        MultusNetwork("default", TRUE),
                        MultusNetwork("additional2", FALSE) >>
    /\ vmiInterfaces = <<"additional1", "default", "additional2">>
    /\ plugCalls = << PlugPhase1(1, MultusNetwork("additional1", FALSE), "net1"),
                      PlugPhase1(2, MultusNetwork("default", TRUE), "eth0"),
                      PlugPhase1(3, MultusNetwork("additional2", FALSE), "net2") >>

\* ---------------------------------------------------------------------
\* The generated values of the router configurator
\* ---------------------------------------------------------------------

GenerateOps == {"DomainIfaceSpec", "DHCPConfig"}

InitRA == InitNdpWith(RouterCIDRs)

SpecRA == InitRA /\ [][NextNdp]_vars

\* The advertisements written so far, by either loop.
RAWrites == SelectSeq(ndpLog, LAMBDA e : e.ev = "write")

\* The advertisement every send is to carry.
AdvertisementAsConstructed(e) ==
    /\ e.dst = "ff02::1"
    /\ e.ra.ManagedConfiguration
    /\ e.ra.OtherConfiguration
    /\ e.ra.RouterLifetime = 65535
    /\ e.ra.Options = raOptions
    /\ Len(e.ra.Options) = 2
    /\ e.ra.Options[1].option = "PrefixInformation"
    /\ e.ra.Options[1].OnLink
    /\ ~e.ra.Options[1].AutonomousAddressConfiguration
    /\ e.ra.Options[2].option = "LinkLayerAddress"
    /\ e.ra.Options[2].Direction = "Source"

SameAdvertisements ==
    LET w == RAWrites
    IN  /\ \A k \in 1..Len(w) : AdvertisementAsConstructed(w[k])
        /\ \A k \in 1..(Len(w) - 1) : w[k].ra = w[k + 1].ra /\ w[k].dst = w[k + 1].dst

\* C29: the option list of a RouterAdvertiser is the one computed at
\* construction and no step of Serve or PeriodicallySendRAs changes it:
\* however the two loops interleave, every Router Advertisement sent,
\* solicited or periodic, carries the same two options (prefix
\* information with OnLink set and Autonomous not set, source link-layer
\* address), Managed and Other set, the same lifetime and destination.
C29_AdvertisementFixedAtConstruction ==
    []SameAdvertisements /\ [][raOptions' = raOptions]_vars

\* Serve has answered a solicitation between two periodic advertisements.
C29_Witness ==
    LET w == RAWrites
    IN  /\ Len(w) = 3
        /\ w[1].who = "Periodic" /\ w[2].who = "Serve" /\ w[3].who = "Periodic"
        /\ \A k \in 1..3 : ~w[k].failed
        /\ raOptions[1].Prefix = "fd00::1"

\* ---------------------------------------------------------------------
\* A new process on a pod link that Prepare has changed
\* ---------------------------------------------------------------------

\* The handler calls of a Prepare whose pod NIC step ran to its end: the
\* pod link was brought up again.
PodNicStepCompleted(cs) ==
    \E i \in 1..Len(cs) :
        cs[i].op = "LinkSetUp" /\ cs[i].dev = PodIfaceName /\ cs[i].ok

\* The process ends during or after a Prepare that has completed its pod
\* NIC step, and a new one constructs a configurator for the same VMI,
\* whose interface declares no MAC; the namespace stays as it is and the
\* new process counts its own calls.
Restart ==
    /\ ~prev.restarted
    /\ last.op = "Prepare"
    /\ PodNicStepCompleted(trace)
    /\ prev' = [restarted |-> TRUE, b |-> b, res |-> last.res]
    /\ b' = NewRouterPodNetworkConfigurator(b.vmi, [mac |-> ""])
    /\ pc' = "idle"
    /\ trace' = <<>>
    /\ last' = [op |-> "none", res |-> "none"]
    /\ ret' = NoRet
    /\ hist' = [hist EXCEPT !.discovered = FALSE]
    /\ calls' = 0
    /\ UNCHANGED <<host, faults>>

NextRestart ==
    /\ \/ Discover /\ UNCHANGED prev
       \/ PreparePodNetworkInterface /\ UNCHANGED prev
       \/ GenerateDomainIfaceSpec /\ UNCHANGED prev
       \/ GenerateDHCPConfig /\ UNCHANGED prev
       \/ Restart
    /\ UNCHANGED <<ndpVars, dlwVars, mergeVars, pureVars>>

SpecRestart == Init /\ [][NextRestart]_vars

\* The families whose address the first process took off the pod link.
StrippedFamilies ==
    (IF prev.b.ipv4Enabled THEN {"v4"} ELSE {}) \cup
    (IF prev.b.ipv6Enabled THEN {"v6"} ELSE {})

\* The new process has discovered the pod link.
Rediscovered == prev.restarted /\ last = [op |-> "Discover", res |-> "ok"]

\* C30: after Prepare has completed its pod NIC step on a pod link, a new
\* configurator whose interface declares no MAC discovers on that link a
\* VM MAC other than the one resolved before Prepare and no pod address
\* of the families Prepare stripped, and what it generates carries
\* neither the original MAC nor the original addresses.
C30_OriginalFactsNotRediscovered ==
    Rediscovered =>
        /\ b.vmMac # prev.b.vmMac
        /\ "v4" \in StrippedFamilies => (~b.ipv4Enabled /\ b.podIPv4Addr = NilAddr)
        /\ "v6" \in StrippedFamilies => (~b.ipv6Enabled /\ b.podIPv6Addr = NilAddr)
        /\ ret.op = "DHCPConfig" /\ ~ret.panic =>
               /\ prev.b.vmMac # "" => ret.dhcp.MAC # prev.b.vmMac
               /\ "v4" \in StrippedFamilies => ret.dhcp.IP = NilAddr
               /\ "v6" \in StrippedFamilies => ret.dhcp.IPv6 = NilAddr
        /\ ret.op = "DomainIfaceSpec" /\ ~ret.panic => ret.iface.MAC # prev.b.vmMac

\* The namespace holds the proxy neighbour entry for the pod address of fam.
ProxyEntryFor(fam) ==
    \E c \in host.installed :
        c.op = "NeighAdd" /\ c.flags = "NTF_PROXY" /\ c.ip = PodIP[fam]

\* The namespace holds the host-scoped route for the pod address of fam.
HostRouteFor(fam) ==
    \E c \in host.installed :
        c.op = "RouteAdd" /\ c.flags = "SCOPE_HOST" /\ c.ip = PodIP[fam]

\* The first process had discovered the link and its Prepare failed; the
\* new process has discovered the link and its Prepare has returned.
Retried ==
    /\ prev.restarted
    /\ prev.res = "err"
    /\ prev.b.vmMac # ""
    /\ hist.discovered
    /\ last.op = "Prepare"
    /\ last.res # "running"

\* C31: when Prepare failed after one of its steps and a new process runs
\* Discover and Prepare in the same namespace, the retry returns no error
\* and the namespace ends as after a run without failure: with the proxy
\* neighbour entry and the host route for the pod's original address of
\* every family the first process had found.
C31_RetryConverges ==
    Retried =>
        /\ last.res = "ok"
        /\ \A fam \in StrippedFamilies : ProxyEntryFor(fam) /\ HostRouteFor(fam)

\* ---------------------------------------------------------------------
\* The calls of createNATRulesForReservedPorts
\* ---------------------------------------------------------------------

\* The place of a handler call in createNATRulesForReservedPorts: 1 IP
\* forwarding, 2 the probes of the NAT backends, 3 a DNAT rule, 4 the
\* on-link route, 5 the gateway's neighbour entry, 6 the host route.
NatRank(c) ==
    IF c.op = "ConfigureIpForwarding" THEN 1
    ELSE IF c.op \in {"NftablesLoad", "HasNatIptables"} THEN 2
    ELSE IF c.op \in {"NftablesAppendRule", "IptablesAppendRule"} THEN 3
    ELSE IF c.op = "RouteAdd" /\ c.flags = "FLAG_ONLINK" THEN 4
    ELSE IF c.op = "NeighAdd" /\ c.flags = "NUD_PERMANENT" THEN 5
    ELSE IF c.op = "RouteAdd" /\ c.flags = "SCOPE_HOST" THEN 6
    ELSE 0

\* The calls of the NAT step of a family, in the order they were issued.
NatCalls(fam) ==
    SelectSeq(trace, LAMBDA c : NatRank(c) > 0 /\ c.fam = fam)

\* The NAT calls of a family come in the order of their places, each of
\* the places 1, 4, 5 and 6 taken once at most.
NatCallsInOrder(fam) ==
    LET cs == NatCalls(fam)
    IN  \A k \in 1..(Len(cs) - 1) :
            IF NatRank(cs[k]) \in {2, 3}
            THEN NatRank(cs[k]) <= NatRank(cs[k + 1])
            ELSE NatRank(cs[k]) < NatRank(cs[k + 1])

\* The three entries of a family were added as the step is to add them.
NatEntriesAdded(fam) ==
    LET cs == NatCalls(fam)
    IN  /\ \E k \in 1..Len(cs) :
               /\ NatRank(cs[k]) = 4 /\ cs[k].ok
               /\ cs[k].dev = PodIfaceName
               /\ cs[k].ip = (IF fam = "v4" THEN DefaultIPv4Dst ELSE DefaultIPv6Dst)
               /\ cs[k].via = Gateway[fam]
        /\ \E k \in 1..Len(cs) :
               /\ NatRank(cs[k]) = 5 /\ cs[k].ok
               /\ cs[k].dev = PodIfaceName
               /\ cs[k].ip = Gateway[fam]
               /\ cs[k].via = gatewayMacAddress
        /\ \E k \in 1..Len(cs) :
               /\ NatRank(cs[k]) = 6 /\ cs[k].ok
               /\ cs[k].dev = GenerateInPodBridgeInterfaceName(PodIfaceName)
               /\ cs[k].ip = PodIP[fam]

EnabledFamilies ==
    (IF b.ipv4Enabled THEN {"v4"} ELSE {}) \cup (IF b.ipv6Enabled THEN {"v6"} ELSE {})

NeighRank(c) ==
    IF c.op = "EnableIpv4ArpProxyOnIface" THEN 1
    ELSE IF c.op = "NeighAdd" /\ c.flags = "NTF_PROXY" /\ c.fam = "v4" THEN 2
    ELSE IF c.op = "EnableIpv6NdpProxyForAll" THEN 3
    ELSE IF c.op = "EnableIpv6NdpProxyOnIface" THEN 4
    ELSE IF c.op = "NeighAdd" /\ c.flags = "NTF_PROXY" /\ c.fam = "v6" THEN 5
    ELSE 0

\* The calls of configureNeighbourReply, in the order they were issued.
NeighCalls ==
    SelectSeq(trace, LAMBDA c : NeighRank(c) > 0)

\* An earlier call of the given place succeeded.
EnabledBefore(cs, k, rank) ==
    \E j \in 1..(k - 1) : NeighRank(cs[j]) = rank /\ cs[j].ok

\* C33: in configureNeighbourReply the proxy neighbour entry of a family
\* is added only after the proxy of that family was enabled (IPv4: proxy
\* ARP on the pod link; IPv6: NDP proxy for all, then on the pod link);
\* the IPv4 part comes before the IPv6 part, and a failure in the IPv4
\* part returns the error with no call of the IPv6 part.
C33_ProxyEnabledBeforeEntry ==
    last.op = "Prepare" =>
        LET cs == NeighCalls
        IN  /\ \A k \in 1..(Len(cs) - 1) : NeighRank(cs[k]) < NeighRank(cs[k + 1])
            /\ \A k \in 1..Len(cs) :
                   /\ NeighRank(cs[k]) = 2 =>
                          /\ EnabledBefore(cs, k, 1)
                          /\ cs[k - 1].dev = PodIfaceName
                          /\ DiscoverThenPrepare => cs[k].ip = PodIP["v4"]
                   /\ NeighRank(cs[k]) = 5 =>
                          /\ EnabledBefore(cs, k, 3)
                          /\ EnabledBefore(cs, k, 4)
                          /\ NeighRank(cs[k - 2]) = 3
                          /\ cs[k - 1].dev = PodIfaceName
                          /\ DiscoverThenPrepare => cs[k].ip = PodIP["v6"]
                   /\ (NeighRank(cs[k]) \in {1, 2} /\ ~cs[k].ok) =>
                          /\ k = Len(cs)
                          /\ last.res = "err"

\* The IPv4 proxy entry could not be added with both families enabled:
\* Prepare returned the error with no call of the IPv6 part.
C33_Witness ==
    /\ last = [op |-> "Prepare", res |-> "err"]
    /\ DiscoverThenPrepare
    /\ EnabledFamilies = {"v4", "v6"}
    /\ NeighCalls # <<>>
    /\ NeighRank(NeighCalls[Len(NeighCalls)]) = 2
    /\ ~NeighCalls[Len(NeighCalls)].ok

\* ---------------------------------------------------------------------
\* DiscoverPodNetworkInterface called again
\* ---------------------------------------------------------------------

\* A further DiscoverPodNetworkInterface("eth0") for the same interface,
\* on the configurator of the call before it or on a new one made for the
\* same VMI and interface spec; prev keeps the configurator and the result
\* of the call before it.
DiscoverAgain ==
    /\ pc = "idle"
    /\ calls < MaxCalls
    /\ last.op = "Discover"
    /\ \E fresh \in BOOLEAN, r \in Results(DiscoverSlots) :
         LET cfg == IF fresh THEN NewRouterPodNetworkConfigurator(b.vmi, b.vmiSpecIface)
                             ELSE b
             o   == DiscoverPodNetworkInterface(cfg, host, PodIfaceName, r)
         IN  /\ faults + Errors(o.calls) <= MaxFaults
             /\ prev' = [restarted |-> fresh, b |-> b, res |-> last.res]
             /\ b' = o.b
             /\ host' = ApplyCalls(host, o.calls)
             /\ trace' = o.calls
             /\ last' = [op |-> "Discover", res |-> IF o.err THEN "err" ELSE "ok"]
             /\ faults' = faults + Errors(o.calls)
             /\ hist' = [hist EXCEPT !.discovered = @ \/ ~o.err,
                                     !.linkMac = IF o.err THEN @ ELSE o.b.podNicLink.mac]
    /\ calls' = calls + 1
    /\ ret' = NoRet
    /\ pc' = "idle"

NextRediscover ==
    (/\ \/ Discover /\ UNCHANGED prev
        \/ DiscoverAgain
     /\ UNCHANGED <<ndpVars, dlwVars, mergeVars, pureVars>>)

SpecRediscover == Init /\ [][NextRediscover]_vars

\* What DiscoverPodNetworkInterface leaves in the configurator.
Discovered(cfg) ==
    [ipv4Enabled        |-> cfg.ipv4Enabled,
     ipv6Enabled        |-> cfg.ipv6Enabled,
     podIPv4Addr        |-> cfg.podIPv4Addr,
     podIPv6Addr        |-> cfg.podIPv6Addr,
     podIfaceIPv4Routes |-> cfg.podIfaceIPv4Routes,
     podIfaceIPv6Routes |-> cfg.podIfaceIPv6Routes,
     defaultIPv4Gateway |-> cfg.defaultIPv4Gateway,
     defaultIPv6Gateway |-> cfg.defaultIPv6Gateway,
     vmMac              |-> cfg.vmMac,
     podNicLink         |-> cfg.podNicLink,
     tapDeviceName      |-> cfg.tapDeviceName,
     bridgeDeviceName   |-> cfg.bridgeDeviceName]

\* Two calls in a row returned no error.
DiscoveredTwice ==
    /\ prev.res = "ok"
    /\ last = [op |-> "Discover", res |-> "ok"]

\* C34: DiscoverPodNetworkInterface run twice for the same pod interface
\* name on an unmodified link, on one configurator or on two new ones,
\* leaves the same enabled flags, addresses, routes, gateways and VM MAC
\* and the same tap and bridge device names, the names being those
\* generated from the pod interface name.
C34_DiscoverTwiceSame ==
    DiscoveredTwice =>
        /\ Discovered(b) = Discovered(prev.b)
        /\ b.tapDeviceName = GenerateTapDeviceName(PodIfaceName)
        /\ b.bridgeDeviceName = GenerateInPodBridgeInterfaceName(PodIfaceName)

\* The second call ran on the configurator of the first, with both
\* families and their routes learned.
C34_Witness ==
    /\ DiscoveredTwice
    /\ ~prev.restarted
    /\ b.ipv4Enabled /\ b.ipv6Enabled
    /\ Len(b.podIfaceIPv6Routes) = 2
    /\ b.vmMac = SpecMac

\* ---------------------------------------------------------------------
\* The directory list watcher under a fair scheduler
\* ---------------------------------------------------------------------

\* A step of the watcher's own code.
DlwStep(A) == A /\ UNCHANGED <<routerVars, ndpVars, mergeVars, pureVars>>

\* The goroutine and the callers inside List and Stop are scheduled when
\* they can step, and a caller waiting for the mutex gets it when it is
\* free again and again.  Nothing makes a consumer receive from the result
\* channel, the filesystem change, or a caller call.
SpecDlwFair ==
    /\ SpecDlw
    /\ \A t \in Callers :
         /\ SF_vars(DlwStep(StartBackgroundLock(t)))
         /\ SF_vars(DlwStep(StopLock(t)))
         /\ WF_vars(DlwStep(NewWatcher(t)))
         /\ WF_vars(DlwStep(WatcherAdd(t)))
         /\ WF_vars(DlwStep(ReadDir(t)))
         /\ WF_vars(DlwStep(ListReturn(t)))
         /\ WF_vars(DlwStep(StopWait(t)))
    /\ WF_vars(DlwStep(GoStop))
    /\ WF_vars(DlwStep(GoEvent))
    /\ WF_vars(DlwStep(GoError))
    /\ WF_vars(DlwStep(GoPut))

\* The caller is inside a Stop it called.
InStop(t) == tpc[t] \in {"stop_lock", "stop_wait"}

\* C35: a Stop that was called returns, whatever the state it was called
\* in and however the calls interleave, also with the result channel full,
\* no consumer receiving and the goroutine about to send an event.
C35_StopReturns ==
    \A t \in Callers : InStop(t) ~> tpc[t] = "idle"

\* The types an event of the result channel is to have.
EventTypes == {"ADDED", "DELETED", "ERROR"}

\* C36: every event the goroutine puts on the result channel has the type
\* Added, Deleted or Error: an operation on a well-formed file name that
\* is neither a create nor a remove gives no event of an empty type, and an
\* error of the watcher gives an Error event and no domain event.
C36_EveryEventTyped ==
    /\ \A i \in 1..Len(eventChan) : eventChan[i].Type \in EventTypes
    /\ \A i \in 1..Len(dlwHist.put) : dlwHist.put[i].Type \in EventTypes \ {"ERROR"}
    /\ gPc = "putErr" => hand.Type = "ERROR"

\* The fsnotify watcher held in d.watcher was made and not closed.
WatcherAlive == watcher \in {"new", "watching"}

\* A step in which fsnotify.NewWatcher() makes a watcher.
WatcherMade ==
    \E t \in Callers : tpc[t] = "sb_newWatcher" /\ tpc'[t] = "sb_add"

\* C37: however List and Stop calls interleave, at most one goroutine and
\* one fsnotify watcher are alive at a time: a goroutine is started only
\* when none runs, and a watcher is made only when none made before is
\* still open.
C37_OneWatchAtATime ==
    /\ [](wg <= 1 /\ (wg = 1 <=> WatchRunning))
    /\ [][wg' > wg => ~WatchRunning]_vars
    /\ [][WatcherMade => ~WatcherAlive]_vars

\* The positions of a caller inside List.
ListPcs ==
    {"sb_lock", "sb_newWatcher", "sb_add", "readdir", "list_return", "lstop_lock",
     "lstop_wait"}

\* A step in which List returns an error to the caller.
ListFails(t) == tpc[t] \in ListPcs /\ tpc'[t] = "idle" /\ tret'.err

\* C38: a List that fails, the watcher not made, the directory not
\* registered or not read, returns an error and no list, and as it returns
\* no goroutine runs and the started flag is false.
C38_FailedListLeavesNothing ==
    [][\A t \in Callers :
          ListFails(t) =>
              /\ tret' = Returned("List", TRUE, {}, tret'.closedStop)
              /\ started' = FALSE
              /\ wg' = 0
              /\ gPc' \in {"none", "exited"}
              /\ lockHolder' = ""]_vars

\* The directory could not be read by the List that had started the
\* watch: List has stopped the watch and returned the error.
C38_Witness ==
    /\ tret = Returned("List", TRUE, {}, TRUE)
    /\ gPc = "exited"
    /\ ~started
    /\ dlwHist.calls = 1

\* ---------------------------------------------------------------------
\* The DNAT rules of the two backends
\* ---------------------------------------------------------------------

\* The links of the pod namespace a packet can come in on.
NamespaceLinks ==
    {"lo", PodIfaceName, GenerateTapDeviceName(PodIfaceName),
     GenerateInPodBridgeInterfaceName(PodIfaceName)}

\* The packets a DNAT rule matches and where it sends them: a rule that
\* names no ingress interface matches on every link.
MatchOf(c) ==
    [Ingress  |-> IF c.dev = "" THEN NamespaceLinks ELSE {c.dev},
     Protocol |-> c.proto,
     Port     |-> c.port,
     To       |-> c.ip]

\* C39: the DNAT rules of the nftables path and of the iptables path are
\* equivalent: whichever backend a family goes through, the rule of each
\* reserved port has the protocol of the port (udp for UDP, tcp
\* otherwise), its destination port, the local address as the target and
\* the same restriction on the ingress interface, the pod link.
C39_BackendsEquivalent ==
    last.op = "Prepare" =>
        \A F \in Families :
            LET rules == DnatRules(F)
                ports == reservedPortsInPod(b.vmi)
            IN  \A i \in 1..Len(rules) :
                    MatchOf(rules[i]) =
                        [Ingress  |-> {PodIfaceName},
                         Protocol |-> IF ports[i].Protocol = "UDP" THEN "udp" ELSE "tcp",
                         Port     |-> ports[i].Port,
                         To       |-> LocalAddr(F)]

\* ---------------------------------------------------------------------
\* The frame of MergeAgentStatusesWithDomainData
\* ---------------------------------------------------------------------

\* The records appended after the agent's statuses.
Appended == SubSeq(merged, Len(reported) + 1, Len(merged))

\* The agent's statuses are kept once each, in their order, with only Name
\* and InfoSource written; after them come records tagged as the domain's,
\* one for each MAC of the domain among them.
AgentStatusesFramed ==
    /\ Len(merged) >= Len(reported)
    /\ \A i \in 1..Len(reported) :
         merged[i] = [reported[i] EXCEPT !.Name = merged[i].Name,
                                         !.InfoSource = merged[i].InfoSource]
    /\ \A k \in 1..Len(Appended) :
         /\ Appended[k].InfoSource = InfoSourceDomain
         /\ Appended[k].Mac \in DomMacs
         /\ \A j \in 1..Len(Appended) : Appended[j].Mac = Appended[k].Mac => j = k
    /\ Len(merged) = Len(reported) + Cardinality({Appended[k].Mac : k \in 1..Len(Appended)})

\* C40: the merge keeps every agent status once and in its order, writing
\* only Name and InfoSource, and appends the domain's unmatched interfaces
\* after them; the result is as long as the agent's statuses and the
\* appended records together; and for the same arguments the function
\* returns the same list on every run.
C40_MergeFrameAndDeterminism ==
    mergePc = "done" =>
        /\ AgentStatusesFramed
        /\ MergeResults(domInterfaces, reported) = {merged}
====
